---- MODULE Spec2Model ----
(***************************************************************************)
(* Model of exograd/go-daemon: the daemon supervisor (daemon/daemon.go),   *)
(* the HTTP server lifecycle (dhttp/server.go) and the metrics client     *)
(* (influx/client.go, influx probe).                                       *)
(*                                                                         *)
(* Each part of the repository is a state machine of its own:              *)
(*   Spec        the supervisor Run/RunTest with its HTTP servers and the  *)
(*               components calling Daemon.fatal;                          *)
(*   SpecInflux  the metrics client: producers, worker, self-probe, Stop   *)
(*               and Terminate;                                            *)
(*   SpecPg, SpecHttp, SpecTls, SpecCheck                                  *)
(*               the database migrations, the HTTP client and handlers,    *)
(*               the TLS dialer and the validation checker;                *)
(*   SpecPointer, SpecPkcs, SpecLine                                       *)
(*               the JSON pointer, the PKCS#5 padding and the line         *)
(*               protocol encoder, applied to bounded inputs;              *)
(*   SpecServer  one HTTP server driven by its owner;                      *)
(*   SpecCfg     the daemon configuration and the maps built from it;      *)
(*   SpecTags    the tags of a point, merged by the metrics client;        *)
(*   SpecReplies the handlers with route functions that reply with         *)
(*               ReplyErrorData;                                           *)
(*   SpecPool    the database migrations with a pool as large as the       *)
(*               number of callers;                                        *)
(*   SpecTxPanic the database migrations with functions that panic.        *)
(* Each specification leaves the other machines' variables unchanged.      *)
(* SpecFair and SpecInfluxFair add the scheduling of the goroutines, for   *)
(* the properties that say that something eventually happens.              *)
(***************************************************************************)
EXTENDS Integers, Sequences, FiniteSets, TLC

\* ---------------------------------------------------------------------
\* Bounds and names
\* ---------------------------------------------------------------------

\* the HTTP servers of the daemon configuration (DaemonCfg.HTTPServers)
Servers == {"s1", "s2"}

\* the components that may call Daemon.fatal
Components == {"c1", "c2"}

\* capacity of Daemon.errorChan: make(chan error, 1)
ErrorChanCap == 1

\* the application tasks that submit points to the metrics client
Producers == {"p1", "p2"}

\* the self-probe goroutine, a sender like the producers
Probe == "probe"

Senders == Producers \cup {Probe}

\* ClientCfg.BatchSize of the modelled client
BatchSize == 2

\* points the producers create at most, all together
MaxPoints == 3

\* points one call of EnqueuePoints carries at most
MaxCall == 2

\* ticks of the worker's timer that are modelled
MaxTicks == 1

\* ticks of the self-probe's timer that are modelled
MaxProbeTicks == 1

\* migration files the schema directory holds at most
MaxMigrations == 3

\* requests a server receives
MaxRequests == 2

\* replies a route function makes at most before it returns or panics
MaxReplies == 1

\* calls of DialTLSContext
MaxDials == 2

\* calls made on one Checker
MaxOps == 3

\* calls of WithChild and CheckObject nested in one another
MaxDepth == 2

\* tokens of a rendered pointer at most
MaxTokens == 2

\* characters of a token at most
MaxTokenLen == 2

\* bytes of the data given to the padding at most
MaxData == 4

\* the largest of the small block sizes
MaxBlock == 3

\* points given to EncodePoints at most
MaxLinePoints == 2

\* calls of AddHTTPServer and AddHTTPClient made by Service.DaemonCfg
MaxAdds == 3

\* ---------------------------------------------------------------------
\* State
\* ---------------------------------------------------------------------

VARIABLES
    \* --- daemon supervisor (daemon/daemon.go) ---
    dpc,          \* position of the main goroutine in Run / RunTest
    initIdx,      \* index of the next init function to run
    cfgInflux,    \* DaemonCfg.Influx # nil
    cfgPg,        \* DaemonCfg.Pg # nil
    exitCode,     \* -1 while the process runs, else its exit status
    derr,         \* Daemon.errorChan: buffered channel content
    dclosed,      \* Daemon.stopChan and Daemon.errorChan closed
    sigChan,      \* a signal is pending in wait's sigChan
    fpc,          \* position of each component in Daemon.fatal
    dlogged,      \* errors logged by wait ("daemon error: ...")
    hist,         \* phases the main goroutine has run through
    \* --- HTTP servers (dhttp/server.go) ---
    serve,        \* the anonymous serving goroutine of Server.Start
    smain,        \* the goroutine Server.main
    sstop,        \* Server.stopChan closed
    serrclosed,   \* Server.errorChan closed
    sshut,        \* http.Server.Shutdown has been invoked
    slogged,      \* Server.main logged "server error"
    sraised,      \* Serve returned a non-sentinel error
    stopping,     \* the server whose Stop the daemon is inside of
    \* --- metrics client (influx/client.go) ---
    ipc,          \* lifecycle of the Client as driven by its owner
    istop,        \* Client.stopChan closed
    ipclosed,     \* Client.pointsChan closed
    wg,           \* Client.wg counter
    wpc,          \* position of the worker goroutine Client.main
    wafter,       \* what the worker does after the flush in progress
    points,       \* Client.points, the batch buffer
    inflight,     \* body of the write request in flight
    ppc,          \* position of each sender (producers and self-probe)
    pbatch,       \* the Points slice each sender is submitting
    pnext,        \* number of points each sender has created
    ticks,        \* ticks of the worker's timer handled so far
    shipped,      \* points of the successful write requests, in order
    fcause,       \* event that caused the last call of flush
    flen,         \* buffer length at the last call of flush
    lastFailed,   \* body of the last request if it failed, else empty
    lastOutcome,  \* outcome of the last write request
    accepted,     \* points the worker has received from pointsChan
    finalFlushes, \* calls of flush made by the stop branch of main
    icrashed      \* a goroutine panicked: the process is dead

dvars == <<dpc, initIdx, cfgInflux, cfgPg, exitCode, derr, dclosed, sigChan,
           fpc, dlogged, hist, serve, smain, sstop, serrclosed, sshut,
           slogged, sraised, stopping>>

ivars == <<ipc, istop, ipclosed, wg, wpc, wafter, points, inflight, ppc,
           pbatch, pnext, ticks, shipped, fcause, flen,
           lastFailed, lastOutcome, accepted, finalFlushes, icrashed>>

VARIABLES
    \* --- database client and migrations (pg/client.go, pg/migrations.go) ---
    dir,            \* versions of the .sql files of the schema directory
    schemaVersions, \* committed rows of schema_versions for the schema
    committed,      \* migrations whose SQL is committed, with the call
    lockHolder,     \* process holding the migrations advisory lock
    lockOrder,      \* the processes in the order they obtained the lock
    upc,            \* position of each process in UpdateSchema
    migrations,     \* the Migrations slice of each UpdateSchema call
    midx,           \* index of the migration loop of each call
    pendingAt,      \* migrations left after RejectVersions, -1 before it
    attempts,       \* versions each call has run Migration.Apply for
    tpc,            \* position of each call in its outer and inner WithTx
    txlog,          \* statements WithTx itself sent on its connection
    fnres,          \* what the function given to WithTx returned
    txret,          \* what WithTx returned
    held,           \* pooled connections acquired and not yet released
    uret            \* what UpdateSchema returned

pgvars == <<dir, schemaVersions, committed, lockHolder, lockOrder, upc,
            migrations, midx, pendingAt, attempts, tpc, txlog, fnres,
            txret, held, uret>>

VARIABLES
    \* --- HTTP request pipeline (dhttp/server.go, dhttp/handler.go) ---
    hideInternalErrors, \* ServerCfg.HideInternalErrors
    hpc,          \* position of each request in Server.ServeHTTP
    hkind,        \* what the router does with the request
    pval,         \* the value the route function panicked with
    rw,           \* the ResponseWriter of the request and what was sent
    errorCode,    \* Handler.errorCode
    rlog,         \* request log lines written by Handler.logRequest
    errlog,       \* error log lines written through Handler.Log
    script,       \* the replies the route function has made
    escaped,      \* a panic left ServeHTTP
    doneBefore    \* the requests served before the request was received

hvars == <<hideInternalErrors, hpc, hkind, pval, rw, errorCode, rlog,
           errlog, script, escaped, doneBefore>>

VARIABLES
    \* --- HTTP client, public key pinning (dhttp/client.go) ---
    cfgTLS,         \* ClientCfg.TLS # nil
    pinNames,       \* the server names that are keys of PublicKeyPins
    publicKeyPins,  \* TLSClientCfg.PublicKeyPins, per server name
    dialpc,         \* position of the current call of DialTLSContext
    tlsConn,        \* the connection of the current call
    dialResult,     \* what the current call returned
    ndials          \* calls of DialTLSContext started so far

tvars == <<cfgTLS, pinNames, publicKeyPins, dialpc, tlsConn, dialResult,
           ndials>>

VARIABLES
    \* --- validation checker (check/check.go) ---
    cPointer,     \* Checker.Pointer
    cErrors,      \* Checker.Errors
    frames,       \* the calls of WithChild and doCheckObject in progress
    lastOp,       \* the last check called, with its arguments
    ret,          \* what the last check returned
    nops,         \* calls made on the checker so far
    cpanic        \* a call on the checker panicked

cvars == <<cPointer, cErrors, frames, lastOp, ret, nops, cpanic>>

VARIABLES
    \* --- JSON pointer (djson/pointer.go) ---
    jsonPointer,  \* the Pointer that is rendered
    rendered,     \* the text Pointer.String returned
    parsed,       \* what Pointer.Parse made of the text
    jpc           \* position of the caller: new, rendered, parsed

jvars == <<jsonPointer, rendered, parsed, jpc>>

VARIABLES
    \* --- PKCS#5 padding (dcrypto/pkcs5.go) ---
    kdata,        \* the data given by the caller
    blockSize,    \* the block size given by the caller
    padded,       \* what PadPKCS5 returned
    unpadded,     \* what UnpadPKCS5 returned
    kpc           \* position of the caller

kvars == <<kdata, blockSize, padded, unpadded, kpc>>

VARIABLES
    \* --- line protocol (influx/line_protocol.go) ---
    lpoints,      \* the Points given to EncodePoints
    lbuf,         \* the bytes.Buffer the points are written to
    lidx,         \* index of the range loop of EncodePoints
    lpc           \* position of the caller

lvars == <<lpoints, lbuf, lidx, lpc>>

VARIABLES
    \* --- a server and its owner (dhttp/server.go) ---
    opc,          \* position of the owner of each server
    sret,         \* what Server.Start returned
    listener      \* net.Listen bound the address of the server

ovars == <<opc, sret, listener>>

VARIABLES
    \* --- daemon configuration (daemon/daemon.go) ---
    cfgAPI,         \* DaemonCfg.API # nil
    cfgHTTPServers, \* DaemonCfg.HTTPServers
    cfgHTTPClients, \* DaemonCfg.HTTPClients
    dHTTPServers,   \* Daemon.HTTPServers
    dHTTPClients,   \* Daemon.HTTPClients
    gpc,            \* position in DaemonCfg, initHTTPServers, ...Clients
    gresult,        \* outcome of the last insertion
    nadds           \* insertions made by Service.DaemonCfg so far

gvars == <<cfgAPI, cfgHTTPServers, cfgHTTPClients, dHTTPServers,
           dHTTPClients, gpc, gresult, nadds>>

VARIABLES
    \* --- tags of a point (influx/client.go) ---
    hostname,     \* ClientCfg.Hostname
    cfgTags,      \* ClientCfg.Tags
    ctags,        \* Client.tags, the base tags
    ptags,        \* Point.Tags as the producer set it
    ftags,        \* Point.Tags after finalizePoint
    mpc           \* position of the caller: cfg, new, finalized

mvars == <<hostname, cfgTags, ctags, ptags, ftags, mpc>>

\* the pure functions, the server owner and the configuration
yvars == <<jvars, kvars, lvars, ovars, gvars, mvars>>

\* the machines other than the supervisor and the metrics client
xvars == <<pgvars, hvars, tvars, cvars, yvars>>

\* what the database client leaves unchanged
notpg == <<dvars, ivars, hvars, tvars, cvars, yvars>>

\* what the HTTP request pipeline leaves unchanged
nothttp == <<dvars, ivars, pgvars, tvars, cvars, yvars>>

\* what the HTTP client leaves unchanged
nottls == <<dvars, ivars, pgvars, hvars, cvars, yvars>>

\* what the checker leaves unchanged
notcheck == <<dvars, ivars, pgvars, hvars, tvars, yvars>>

\* what the JSON pointer leaves unchanged
notpointer == <<dvars, ivars, pgvars, hvars, tvars, cvars, kvars, lvars,
                ovars, gvars, mvars>>

\* what the padding leaves unchanged
notpkcs == <<dvars, ivars, pgvars, hvars, tvars, cvars, jvars, lvars,
             ovars, gvars, mvars>>

\* what the line protocol leaves unchanged
notline == <<dvars, ivars, pgvars, hvars, tvars, cvars, jvars, kvars,
             ovars, gvars, mvars>>

\* what the merge of the tags leaves unchanged
nottags == <<dvars, ivars, pgvars, hvars, tvars, cvars, jvars, kvars,
             lvars, ovars, gvars>>

\* what the owner of a server leaves unchanged, the supervisor apart
notowner == <<ivars, pgvars, hvars, tvars, cvars, jvars, kvars, lvars,
              gvars, mvars>>

\* what the configuration leaves unchanged, the supervisor apart
notcfg == <<ivars, pgvars, hvars, tvars, cvars, jvars, kvars, lvars,
            ovars, mvars>>

vars == <<dvars, ivars, xvars>>

\* the daemon processes that update the same schema of the same database
Procs == {"a", "b"}

\* the two uses of WithTx in UpdateSchema: the transaction holding the
\* advisory lock and the transaction of one migration
Levels == {"outer", "inner"}

\* a migration version: the file's basename, in the fixed layout
\* 20060102T150405Z; versions differ in the two digits of the day
VersionOf(n) == <<n \div 10, n % 10>>

\* os.ReadDir lists the directory sorted by file name
Listing(n) == [i \in 1..n |-> VersionOf(i)]

\* NewClient has connected the pools; no UpdateSchema call has started
PgStart(d, sv) ==
    /\ dir = d
    /\ schemaVersions = sv
    /\ committed = <<>>
    /\ lockHolder = "none"
    /\ lockOrder = <<>>
    /\ upc = [p \in Procs |-> "idle"]
    /\ migrations = [p \in Procs |-> <<>>]
    /\ midx = [p \in Procs |-> 1]
    /\ pendingAt = [p \in Procs |-> -1]
    /\ attempts = [p \in Procs |-> <<>>]
    /\ tpc = [p \in Procs |-> [l \in Levels |-> "none"]]
    /\ txlog = [p \in Procs |-> [l \in Levels |-> <<>>]]
    /\ fnres = [p \in Procs |-> [l \in Levels |-> "none"]]
    /\ txret = [p \in Procs |-> [l \in Levels |-> "none"]]
    /\ held = [p \in Procs |-> {}]
    /\ uret = [p \in Procs |-> "none"]

PgIdle == PgStart(<<>>, {})

\* the requests a server receives; each is served by its own goroutine
Requests == 1..MaxRequests

\* NewServer: no request has been received
HttpStart(hide) ==
    /\ hideInternalErrors = hide
    /\ hpc = [r \in Requests |-> "new"]
    /\ hkind = [r \in Requests |-> "none"]
    /\ pval = [r \in Requests |-> [type |-> "none", text |-> ""]]
    /\ rw = [r \in Requests |-> [status |-> 0, sent |-> 0, body |-> <<>>]]
    /\ errorCode = [r \in Requests |-> ""]
    /\ rlog = [r \in Requests |-> <<>>]
    /\ errlog = [r \in Requests |-> <<>>]
    /\ script = [r \in Requests |-> <<>>]
    /\ escaped = [r \in Requests |-> FALSE]
    /\ doneBefore = [r \in Requests |-> {}]

HttpIdle == HttpStart(FALSE)

\* the server names the client connects to
ServerNames == {"n1", "n2"}

\* no connection: the value of tlsConn outside a call
NoConn == [serverName |-> "", peerKey |-> "", open |-> FALSE]

\* NewClient with the given TLS configuration; nothing dialed yet
TlsStart(tls, names, pins) ==
    /\ cfgTLS = tls
    /\ pinNames = names
    /\ publicKeyPins = pins
    /\ dialpc = "idle"
    /\ tlsConn = NoConn
    /\ dialResult = "none"
    /\ ndials = 0

TlsIdle == TlsStart(FALSE, {}, [n \in ServerNames |-> {}])

\* no check has been called
NoOp == [op |-> "none", token |-> <<>>, args |-> <<>>]

\* NewChecker
CheckIdle ==
    /\ cPointer = <<>>
    /\ cErrors = <<>>
    /\ frames = <<>>
    /\ lastOp = NoOp
    /\ ret = TRUE
    /\ nops = 0
    /\ cpanic = FALSE

\* no pointer has been rendered
NoParse == [err |-> "none", p |-> <<>>]

PointerIdle ==
    /\ jsonPointer = <<>>
    /\ rendered = <<>>
    /\ parsed = NoParse
    /\ jpc = "new"

\* nothing has been padded
NoUnpad == [data |-> <<>>, err |-> "none"]

PkcsIdle ==
    /\ kdata = <<>>
    /\ blockSize = 1
    /\ padded = <<>>
    /\ unpadded = NoUnpad
    /\ kpc = "new"

\* no point has been encoded
LineIdle ==
    /\ lpoints = <<>>
    /\ lbuf = <<>>
    /\ lidx = 1
    /\ lpc = "new"

\* NewServer: no server has an owner that called Start
OwnerIdle ==
    /\ opc = [s \in Servers |-> "new"]
    /\ sret = [s \in Servers |-> "none"]
    /\ listener = [s \in Servers |-> FALSE]

\* a map without entries
EmptyMap == [n \in {} |-> ""]

\* NewDaemonCfg: both maps empty
CfgStart(api) ==
    /\ cfgAPI = api
    /\ cfgHTTPServers = EmptyMap
    /\ cfgHTTPClients = EmptyMap
    /\ dHTTPServers = EmptyMap
    /\ dHTTPClients = EmptyMap
    /\ gpc = "DaemonCfg"
    /\ gresult = [op |-> "none", name |-> "", outcome |-> "none"]
    /\ nadds = 0

CfgIdle == CfgStart(FALSE)

\* a map without tags
NoTags == [k \in {} |-> ""]

\* no client has been made and no point finalized
TagsIdle ==
    /\ hostname = ""
    /\ cfgTags = NoTags
    /\ ctags = NoTags
    /\ ptags = NoTags
    /\ ftags = NoTags
    /\ mpc = "cfg"

\* the pure functions, the server owner and the configuration at rest
YIdle ==
    /\ PointerIdle /\ PkcsIdle /\ LineIdle /\ OwnerIdle /\ CfgIdle
    /\ TagsIdle

\* the machines other than the supervisor and the metrics client at rest
XIdle == PgIdle /\ HttpIdle /\ TlsIdle /\ CheckIdle /\ YIdle

NoServer == "-"

\* Daemon.init: initFuncs, then service.Init
InitFuncs == <<"hostname", "logger", "httpServers", "httpClients",
               "influx", "pg", "api", "service">>

\* the init functions that can return an error
\* (initHTTPServers and initAPI always return nil)
InitCanFail(f) == f \in {"hostname", "logger", "httpClients", "influx",
                         "pg", "service"}

Running == exitCode = -1

\* newDaemon, before Run calls d.init()
InitDaemon ==
    /\ dpc = "init"
    /\ initIdx = 1
    /\ cfgInflux \in BOOLEAN
    /\ cfgPg \in BOOLEAN
    /\ exitCode = -1
    /\ derr = <<>>
    /\ dclosed = FALSE
    /\ sigChan = FALSE
    /\ fpc = [c \in Components |-> "idle"]
    /\ dlogged = {}
    /\ hist = {}
    /\ serve = [s \in Servers |-> "none"]
    /\ smain = [s \in Servers |-> "none"]
    /\ sstop = [s \in Servers |-> FALSE]
    /\ serrclosed = [s \in Servers |-> FALSE]
    /\ sshut = [s \in Servers |-> FALSE]
    /\ slogged = [s \in Servers |-> FALSE]
    /\ sraised = [s \in Servers |-> FALSE]
    /\ stopping = NoServer

UnchangedServers ==
    UNCHANGED <<serve, smain, sstop, serrclosed, sshut, slogged, sraised>>

\* abort / p.Fatal: print the message and os.Exit(1)
Abort ==
    /\ exitCode' = 1
    /\ hist' = hist \cup {"startupFailed"}

\* ---------------------------------------------------------------------
\* Daemon.init
\* ---------------------------------------------------------------------

\* one init function returns nil
InitOk ==
    /\ Running /\ dpc = "init"
    /\ initIdx' = initIdx + 1
    /\ dpc' = IF initIdx = Len(InitFuncs) THEN "startServers" ELSE "init"
    /\ hist' = hist \cup {InitFuncs[initIdx]}
    /\ UNCHANGED <<cfgInflux, cfgPg, exitCode, derr, dclosed, sigChan, fpc,
                   dlogged, stopping>>
    /\ UnchangedServers
    /\ UNCHANGED <<ivars, xvars>>

\* InitFail_Continues: the error of an init function is noted and the
\* loop goes on with the next one
InitFail_Continues ==
    /\ Running /\ dpc = "init"
    /\ InitCanFail(InitFuncs[initIdx])
    /\ initIdx < Len(InitFuncs)
    /\ initIdx' = initIdx + 1
    /\ hist' = hist \cup {"startupFailed"}
    /\ UNCHANGED <<dpc, cfgInflux, cfgPg, exitCode, derr, dclosed, sigChan,
                   fpc, dlogged, stopping>>
    /\ UnchangedServers
    /\ UNCHANGED <<ivars, xvars>>

\* one init function returns an error: init returns it, Run aborts
InitFail ==
    /\ Running /\ dpc = "init"
    /\ InitCanFail(InitFuncs[initIdx])
    /\ InitFuncs[initIdx] = "influx" => cfgInflux
    /\ InitFuncs[initIdx] = "pg" => cfgPg
    /\ Abort
    /\ UNCHANGED <<dpc, initIdx, cfgInflux, cfgPg, derr, dclosed, sigChan,
                   fpc, dlogged, stopping>>
    /\ UnchangedServers
    /\ UNCHANGED <<ivars, xvars>>

\* ---------------------------------------------------------------------
\* Daemon.start
\* ---------------------------------------------------------------------

\* Server.Start, net.Listen succeeds: the serving goroutine and Server.main
\* are spawned.  The daemon ranges over the map d.HTTPServers, in any order.
StartServerOk(s) ==
    /\ Running /\ dpc = "startServers"
    /\ serve[s] = "none"
    /\ serve' = [serve EXCEPT ![s] = "serving"]
    /\ smain' = [smain EXCEPT ![s] = "select"]
    /\ UNCHANGED <<dpc, initIdx, cfgInflux, cfgPg, exitCode, derr, dclosed,
                   sigChan, fpc, dlogged, hist, stopping, sstop, serrclosed,
                   sshut, slogged, sraised>>
    /\ UNCHANGED <<ivars, xvars>>

\* StartServerFail with the error of Server.Start swallowed: the loop of
\* Daemon.start goes on as if the server had started
StartServerFail_Ignored(s) ==
    /\ Running /\ dpc = "startServers"
    /\ serve[s] = "none"
    /\ hist' = hist \cup {"startupFailed"}
    /\ serve' = [serve EXCEPT ![s] = "done"]
    /\ smain' = [smain EXCEPT ![s] = "done"]
    /\ UNCHANGED <<dpc, initIdx, cfgInflux, cfgPg, exitCode, derr, dclosed,
                   sigChan, fpc, dlogged, stopping, sstop, serrclosed,
                   sshut, slogged, sraised>>
    /\ UNCHANGED <<ivars, xvars>>

\* Server.Start, net.Listen fails: Start returns the error synchronously,
\* Daemon.start returns it and Run aborts.
StartServerFail(s) ==
    /\ Running /\ dpc = "startServers"
    /\ serve[s] = "none"
    /\ Abort
    /\ UNCHANGED <<dpc, initIdx, cfgInflux, cfgPg, derr, dclosed, sigChan,
                   fpc, dlogged, stopping>>
    /\ UnchangedServers
    /\ UNCHANGED <<ivars, xvars>>

\* StartInflux_BeforeServers: the metrics client is started while servers
\* are still to be started
StartInflux_BeforeServers ==
    /\ Running /\ dpc = "startServers"
    /\ dpc' = "startService"
    /\ hist' = IF cfgInflux THEN hist \cup {"influxStarted"} ELSE hist
    /\ UNCHANGED <<initIdx, cfgInflux, cfgPg, exitCode, derr, dclosed,
                   sigChan, fpc, dlogged, stopping>>
    /\ UnchangedServers
    /\ UNCHANGED <<ivars, xvars>>

\* the range loop over d.HTTPServers is over; d.Influx.Start() when set
StartInflux ==
    /\ Running /\ dpc = "startServers"
    /\ \A s \in Servers : serve[s] # "none"
    /\ dpc' = "startService"
    /\ hist' = IF cfgInflux THEN hist \cup {"influxStarted"} ELSE hist
    /\ UNCHANGED <<initIdx, cfgInflux, cfgPg, exitCode, derr, dclosed,
                   sigChan, fpc, dlogged, stopping>>
    /\ UnchangedServers
    /\ UNCHANGED <<ivars, xvars>>

\* service.Start returns nil: Daemon.start returns nil, Run calls d.wait()
StartServiceOk ==
    /\ Running /\ dpc = "startService"
    /\ dpc' = "wait"
    /\ hist' = hist \cup {"started", "wait"}
    /\ UNCHANGED <<initIdx, cfgInflux, cfgPg, exitCode, derr, dclosed,
                   sigChan, fpc, dlogged, stopping>>
    /\ UnchangedServers
    /\ UNCHANGED <<ivars, xvars>>

\* service.Start returns an error
StartServiceFail ==
    /\ Running /\ dpc = "startService"
    /\ Abort
    /\ UNCHANGED <<dpc, initIdx, cfgInflux, cfgPg, derr, dclosed, sigChan,
                   fpc, dlogged, stopping>>
    /\ UnchangedServers
    /\ UNCHANGED <<ivars, xvars>>

\* ---------------------------------------------------------------------
\* Daemon.wait, Daemon.fatal and the signals
\* ---------------------------------------------------------------------

\* the operating system delivers SIGINT / SIGTERM into sigChan
\* (signal.Notify, channel of capacity 1)
Signal ==
    /\ Running /\ dpc = "wait"
    /\ ~sigChan
    /\ sigChan' = TRUE
    /\ UNCHANGED <<dpc, initIdx, cfgInflux, cfgPg, exitCode, derr, dclosed,
                   fpc, dlogged, hist, stopping>>
    /\ UnchangedServers
    /\ UNCHANGED <<ivars, xvars>>

\* Daemon.fatal: d.errorChan <- err
\*   closed channel: the send panics and the process dies (status 2);
\*   room in the buffer: the send completes;
\*   buffer full: the caller blocks.
Fatal(c) ==
    /\ Running /\ "started" \in hist
    /\ fpc[c] \in {"idle", "blocked"}
    /\ IF dclosed
         THEN /\ exitCode' = 2
              /\ fpc' = [fpc EXCEPT ![c] = "panicked"]
              /\ UNCHANGED <<derr, hist>>
         ELSE IF Len(derr) < ErrorChanCap
           THEN /\ derr' = Append(derr, c)
                /\ fpc' = [fpc EXCEPT ![c] = "returned"]
                /\ hist' = IF dpc = "wait" THEN hist \cup {"fatalInWait"}
                                           ELSE hist
                /\ UNCHANGED exitCode
           ELSE /\ fpc[c] = "idle"
                /\ fpc' = [fpc EXCEPT ![c] = "blocked"]
                /\ UNCHANGED <<derr, exitCode, hist>>
    /\ UNCHANGED <<dpc, initIdx, cfgInflux, cfgPg, dclosed, sigChan, dlogged,
                   stopping>>
    /\ UnchangedServers
    /\ UNCHANGED <<ivars, xvars>>

\* wait, case signo := <-sigChan: log the signal, return; Run calls d.stop()
\* (the case <-d.stopChan of the same select is never ready while wait
\* runs: d.stopChan is only closed, by terminate, and nothing sends on it)
WaitSignal ==
    /\ Running /\ dpc = "wait"
    /\ sigChan
    /\ sigChan' = FALSE
    /\ dpc' = "stopService"
    /\ hist' = hist \cup {"signalTaken", "stop"}
    /\ UNCHANGED <<initIdx, cfgInflux, cfgPg, exitCode, derr, dclosed, fpc,
                   dlogged, stopping>>
    /\ UnchangedServers
    /\ UNCHANGED <<ivars, xvars>>

\* WaitError without the os.Exit(1): the error is logged and wait returns
WaitError_NoExit ==
    /\ Running /\ dpc = "wait"
    /\ Len(derr) > 0
    /\ derr' = Tail(derr)
    /\ dlogged' = dlogged \cup {Head(derr)}
    /\ dpc' = "stopService"
    /\ UNCHANGED <<initIdx, cfgInflux, cfgPg, exitCode, dclosed, sigChan,
                   fpc, hist, stopping>>
    /\ UnchangedServers
    /\ UNCHANGED <<ivars, xvars>>

\* wait, case err := <-d.errorChan: log the error and os.Exit(1)
WaitError ==
    /\ Running /\ dpc = "wait"
    /\ Len(derr) > 0
    /\ derr' = Tail(derr)
    /\ dlogged' = dlogged \cup {Head(derr)}
    /\ exitCode' = 1
    /\ UNCHANGED <<dpc, initIdx, cfgInflux, cfgPg, dclosed, sigChan, fpc,
                   hist, stopping>>
    /\ UnchangedServers
    /\ UNCHANGED <<ivars, xvars>>

\* ---------------------------------------------------------------------
\* Daemon.stop
\* ---------------------------------------------------------------------

\* d.service.Stop(d)
StopService ==
    /\ Running /\ dpc = "stopService"
    /\ dpc' = "stopPg"
    /\ hist' = hist \cup {"serviceStopped"}
    /\ UNCHANGED <<initIdx, cfgInflux, cfgPg, exitCode, derr, dclosed,
                   sigChan, fpc, dlogged, stopping>>
    /\ UnchangedServers
    /\ UNCHANGED <<ivars, xvars>>

\* d.Pg.Close() when set
StopPg ==
    /\ Running /\ dpc = "stopPg"
    /\ dpc' = "stopInflux"
    /\ hist' = IF cfgPg THEN hist \cup {"pgClosed"} ELSE hist
    /\ UNCHANGED <<initIdx, cfgInflux, cfgPg, exitCode, derr, dclosed,
                   sigChan, fpc, dlogged, stopping>>
    /\ UnchangedServers
    /\ UNCHANGED <<ivars, xvars>>

\* d.Influx.Stop() when set
StopInflux ==
    /\ Running /\ dpc = "stopInflux"
    /\ dpc' = "stopServers"
    /\ hist' = IF cfgInflux THEN hist \cup {"influxStopped"} ELSE hist
    /\ UNCHANGED <<initIdx, cfgInflux, cfgPg, exitCode, derr, dclosed,
                   sigChan, fpc, dlogged, stopping>>
    /\ UnchangedServers
    /\ UNCHANGED <<ivars, xvars>>

\* StopServerClose_Concurrent: the Stop of a server begins while the Stop
\* of another one has not returned
StopServerClose_Concurrent(s) ==
    /\ Running /\ dpc = "stopServers"
    /\ ~sstop[s]
    /\ sstop' = [sstop EXCEPT ![s] = TRUE]
    /\ stopping' = s
    /\ UNCHANGED <<dpc, initIdx, cfgInflux, cfgPg, exitCode, derr, dclosed,
                   sigChan, fpc, dlogged, hist, serve, smain, serrclosed,
                   sshut, slogged, sraised>>
    /\ UNCHANGED <<ivars, xvars>>

\* Server.Stop, first half: close(s.stopChan)
StopServerClose(s) ==
    /\ Running /\ dpc = "stopServers"
    /\ stopping = NoServer
    /\ ~sstop[s]
    /\ sstop' = [sstop EXCEPT ![s] = TRUE]
    /\ stopping' = s
    /\ UNCHANGED <<dpc, initIdx, cfgInflux, cfgPg, exitCode, derr, dclosed,
                   sigChan, fpc, dlogged, hist, serve, smain, serrclosed,
                   sshut, slogged, sraised>>
    /\ UNCHANGED <<ivars, xvars>>

\* Server.Stop, second half: s.wg.Wait() returns once Server.main is done
StopServerWait(s) ==
    /\ Running /\ dpc = "stopServers"
    /\ stopping = s
    /\ smain[s] = "done"
    /\ stopping' = NoServer
    /\ UNCHANGED <<dpc, initIdx, cfgInflux, cfgPg, exitCode, derr, dclosed,
                   sigChan, fpc, dlogged, hist>>
    /\ UnchangedServers
    /\ UNCHANGED <<ivars, xvars>>

\* the range loop of stop is over: stop returns, Run calls d.terminate(),
\* which starts with d.service.Terminate(d)
TerminateService ==
    /\ Running /\ dpc = "stopServers"
    /\ stopping = NoServer
    /\ \A s \in Servers : sstop[s]
    /\ dpc' = "termInflux"
    /\ hist' = hist \cup {"stopped", "terminate"}
    /\ UNCHANGED <<initIdx, cfgInflux, cfgPg, exitCode, derr, dclosed,
                   sigChan, fpc, dlogged, stopping>>
    /\ UnchangedServers
    /\ UNCHANGED <<ivars, xvars>>

\* ---------------------------------------------------------------------
\* Daemon.terminate
\* ---------------------------------------------------------------------

\* d.Influx.Terminate() when set
TerminateInflux ==
    /\ Running /\ dpc = "termInflux"
    /\ dpc' = "termClients"
    /\ hist' = IF cfgInflux THEN hist \cup {"influxTerminated"} ELSE hist
    /\ UNCHANGED <<initIdx, cfgInflux, cfgPg, exitCode, derr, dclosed,
                   sigChan, fpc, dlogged, stopping>>
    /\ UnchangedServers
    /\ UNCHANGED <<ivars, xvars>>

\* the range loop over d.HTTPClients: Client.Terminate of each one
\* (CloseIdleConnections)
TerminateHTTPClients ==
    /\ Running /\ dpc = "termClients"
    /\ dpc' = "termServers"
    /\ hist' = hist \cup {"clientsTerminated"}
    /\ UNCHANGED <<initIdx, cfgInflux, cfgPg, exitCode, derr, dclosed,
                   sigChan, fpc, dlogged, stopping>>
    /\ UnchangedServers
    /\ UNCHANGED <<ivars, xvars>>

\* Server.Terminate: close(s.errorChan)
TerminateServer(s) ==
    /\ Running /\ dpc = "termServers"
    /\ ~serrclosed[s]
    /\ serrclosed' = [serrclosed EXCEPT ![s] = TRUE]
    /\ UNCHANGED <<dpc, initIdx, cfgInflux, cfgPg, exitCode, derr, dclosed,
                   sigChan, fpc, dlogged, hist, stopping, serve, smain,
                   sstop, sshut, slogged, sraised>>
    /\ UNCHANGED <<ivars, xvars>>

\* TerminateChans_BeforeServers: the supervisor's channels are closed
\* while a server still has its error channel open
TerminateChans_BeforeServers ==
    /\ Running /\ dpc = "termServers"
    /\ dclosed' = TRUE
    /\ dpc' = "returning"
    /\ hist' = hist \cup {"terminated"}
    /\ UNCHANGED <<initIdx, cfgInflux, cfgPg, exitCode, derr, sigChan, fpc,
                   dlogged, stopping>>
    /\ UnchangedServers
    /\ UNCHANGED <<ivars, xvars>>

\* close(d.stopChan); close(d.errorChan)
TerminateChans ==
    /\ Running /\ dpc = "termServers"
    /\ \A s \in Servers : serrclosed[s]
    /\ dclosed' = TRUE
    /\ dpc' = "returning"
    /\ hist' = hist \cup {"terminated"}
    /\ UNCHANGED <<initIdx, cfgInflux, cfgPg, exitCode, derr, sigChan, fpc,
                   dlogged, stopping>>
    /\ UnchangedServers
    /\ UNCHANGED <<ivars, xvars>>

\* Run returns, main returns: the process ends with status 0
Return ==
    /\ Running /\ dpc = "returning"
    /\ exitCode' = 0
    /\ UNCHANGED <<dpc, initIdx, cfgInflux, cfgPg, derr, dclosed, sigChan,
                   fpc, dlogged, hist, stopping>>
    /\ UnchangedServers
    /\ UNCHANGED <<ivars, xvars>>

\* ---------------------------------------------------------------------
\* The goroutines of a server (dhttp/server.go)
\* ---------------------------------------------------------------------

\* Serve / ServeTLS returns an error other than http.ErrServerClosed:
\* the serving goroutine goes on to s.errorChan <- err
ServeFails(s) ==
    /\ Running /\ serve[s] = "serving"
    /\ ~sshut[s]
    /\ serve' = [serve EXCEPT ![s] = "sending"]
    /\ sraised' = [sraised EXCEPT ![s] = TRUE]
    /\ UNCHANGED <<dpc, initIdx, cfgInflux, cfgPg, exitCode, derr, dclosed,
                   sigChan, fpc, dlogged, hist, stopping, smain, sstop,
                   serrclosed, sshut, slogged>>
    /\ UNCHANGED <<ivars, xvars>>

\* Serve / ServeTLS returns http.ErrServerClosed after Shutdown
ServeClosed(s) ==
    /\ Running /\ serve[s] = "serving"
    /\ sshut[s]
    /\ serve' = [serve EXCEPT ![s] = "done"]
    /\ UNCHANGED <<dpc, initIdx, cfgInflux, cfgPg, exitCode, derr, dclosed,
                   sigChan, fpc, dlogged, hist, stopping, smain, sstop,
                   serrclosed, sshut, slogged, sraised>>
    /\ UNCHANGED <<ivars, xvars>>

\* ServeSendError with the serve error forwarded to Daemon.errorChan
\* instead of being logged by Server.main
ServeSendError_ToDaemon(s) ==
    /\ Running /\ serve[s] = "sending"
    /\ smain[s] = "select"
    /\ ~serrclosed[s]
    /\ Len(derr) < ErrorChanCap
    /\ derr' = Append(derr, s)
    /\ serve' = [serve EXCEPT ![s] = "done"]
    /\ smain' = [smain EXCEPT ![s] = "done"]
    /\ UNCHANGED <<dpc, initIdx, cfgInflux, cfgPg, exitCode, dclosed,
                   sigChan, fpc, dlogged, hist, stopping, sstop, serrclosed,
                   sshut, slogged, sraised>>
    /\ UNCHANGED <<ivars, xvars>>

\* s.errorChan <- err meets Server.main, case err := <-s.errorChan:
\* main logs "server error" and returns (wg.Done)
ServeSendError(s) ==
    /\ Running /\ serve[s] = "sending"
    /\ smain[s] = "select"
    /\ ~serrclosed[s]
    /\ serve' = [serve EXCEPT ![s] = "done"]
    /\ smain' = [smain EXCEPT ![s] = "done"]
    /\ slogged' = [slogged EXCEPT ![s] = TRUE]
    /\ UNCHANGED <<dpc, initIdx, cfgInflux, cfgPg, exitCode, derr, dclosed,
                   sigChan, fpc, dlogged, hist, stopping, sstop, serrclosed,
                   sshut, sraised>>
    /\ UNCHANGED <<ivars, xvars>>

\* s.errorChan <- err on the channel closed by Server.Terminate: the send
\* panics, the process dies with status 2
ServeSendClosed(s) ==
    /\ Running /\ serve[s] = "sending"
    /\ serrclosed[s]
    /\ serve' = [serve EXCEPT ![s] = "panicked"]
    /\ exitCode' = 2
    /\ UNCHANGED <<dpc, initIdx, cfgInflux, cfgPg, derr, dclosed, sigChan,
                   fpc, dlogged, hist, stopping, smain, sstop, serrclosed,
                   sshut, slogged, sraised>>
    /\ UNCHANGED <<ivars, xvars>>

\* Server.main, case <-s.stopChan: s.shutdown() (http.Server.Shutdown with
\* a budget of one second), then return (wg.Done)
MainStop(s) ==
    /\ Running /\ smain[s] = "select"
    /\ sstop[s]
    /\ smain' = [smain EXCEPT ![s] = "done"]
    /\ sshut' = [sshut EXCEPT ![s] = TRUE]
    /\ UNCHANGED <<dpc, initIdx, cfgInflux, cfgPg, exitCode, derr, dclosed,
                   sigChan, fpc, dlogged, hist, stopping, serve, sstop,
                   serrclosed, slogged, sraised>>
    /\ UNCHANGED <<ivars, xvars>>

\* ---------------------------------------------------------------------
\* The metrics client (influx/client.go)
\* ---------------------------------------------------------------------

\* NewClient: both channels open, empty buffer, no goroutine
InitClient ==
    /\ ipc = "created"
    /\ istop = FALSE
    /\ ipclosed = FALSE
    /\ wg = 0
    /\ wpc = "none"
    /\ wafter = "loop"
    /\ points = <<>>
    /\ inflight = <<>>
    /\ ppc = [s \in Senders |-> IF s = Probe THEN "none" ELSE "idle"]
    /\ pbatch = [s \in Senders |-> <<>>]
    /\ pnext = [s \in Senders |-> 0]
    /\ ticks = 0
    /\ shipped = <<>>
    /\ fcause = "none"
    /\ flen = 0
    /\ lastFailed = <<>>
    /\ lastOutcome = "none"
    /\ accepted = {}
    /\ finalFlushes = 0
    /\ icrashed = FALSE

Alive == ~icrashed

\* number of points the producers have created so far
Created == pnext["p1"] + pnext["p2"]

\* the k points a sender creates next, numbered in creation order
NewPoints(s, k) == [i \in 1..k |-> <<s, pnext[s] + i>>]

\* Flush without the test for an empty buffer: a request is always sent
Flush_SendsEmpty(buf, cause, after) ==
    /\ fcause' = cause
    /\ flen' = Len(buf)
    /\ points' = buf
    /\ wpc' = "flushing"
    /\ wafter' = after
    /\ inflight' = buf
    /\ UNCHANGED wg

\* Client.flush, up to the moment the write request is on the wire.
\*   buf    the buffer at the call (c.points)
\*   cause  the event whose handler calls flush
\*   after  "exit" when the handler returns from main after the flush
\* With an empty buffer flush returns at once and no request is sent.
Flush(buf, cause, after) ==
    /\ fcause' = cause
    /\ flen' = Len(buf)
    /\ points' = buf
    /\ IF Len(buf) = 0
         THEN /\ wpc' = IF after = "exit" THEN "done" ELSE "select"
              /\ wg' = IF after = "exit" THEN wg - 1 ELSE wg
              /\ UNCHANGED <<wafter, inflight>>
         ELSE /\ wpc' = "flushing"
              /\ wafter' = after
              /\ inflight' = buf
              /\ UNCHANGED wg

\* enqueuePoints putting the new points in front of the buffer
enqueuePoints_Prepend(ps) ==
    IF Len(ps \o points) >= BatchSize
      THEN Flush(ps \o points, "batch", "loop")
      ELSE /\ points' = ps \o points
           /\ UNCHANGED <<wpc, wg, wafter, inflight, fcause, flen>>

\* enqueuePoints flushing only once the batch size is exceeded
enqueuePoints_OffByOne(ps) ==
    IF Len(points \o ps) > BatchSize
      THEN Flush(points \o ps, "batch", "loop")
      ELSE /\ points' = points \o ps
           /\ UNCHANGED <<wpc, wg, wafter, inflight, fcause, flen>>

\* enqueuePoints without the batch size test: only ticks flush
enqueuePoints_NoFlush(ps) ==
    /\ points' = points \o ps
    /\ UNCHANGED <<wpc, wg, wafter, inflight, fcause, flen>>

\* Client.enqueuePoints: append the received points, flush when the
\* buffer has reached the batch size
enqueuePoints(ps) ==
    IF Len(points \o ps) >= BatchSize
      THEN Flush(points \o ps, "batch", "loop")
      ELSE /\ points' = points \o ps
           /\ UNCHANGED <<wpc, wg, wafter, inflight, fcause, flen>>

\* Client.Start: spawn main and goProbeMain
ClientStart ==
    /\ Alive /\ ipc = "created"
    /\ ipc' = "started"
    /\ wg' = wg + 2
    /\ wpc' = "select"
    /\ ppc' = [ppc EXCEPT ![Probe] = "loop"]
    /\ UNCHANGED <<istop, ipclosed, wafter, points, inflight, pbatch, pnext,
                   ticks, shipped, fcause, flen, lastFailed, lastOutcome,
                   accepted,
                   finalFlushes, icrashed>>
    /\ UNCHANGED <<dvars, xvars>>

\* Client.Stop, first half: close(c.stopChan)
ClientStopClose ==
    /\ Alive /\ ipc = "started"
    /\ ipc' = "stopping"
    /\ istop' = TRUE
    /\ UNCHANGED <<ipclosed, wg, wpc, wafter, points, inflight, ppc, pbatch,
                   pnext, ticks, shipped, fcause, flen,
                   lastFailed, lastOutcome, accepted, finalFlushes, icrashed>>
    /\ UNCHANGED <<dvars, xvars>>

\* Client.Stop, second half: c.wg.Wait() returns
ClientStopWait ==
    /\ Alive /\ ipc = "stopping"
    /\ wg = 0
    /\ ipc' = "stopped"
    /\ UNCHANGED <<istop, ipclosed, wg, wpc, wafter, points, inflight, ppc,
                   pbatch, pnext, ticks, shipped, fcause, flen,
                   lastFailed, lastOutcome, accepted, finalFlushes, icrashed>>
    /\ UNCHANGED <<dvars, xvars>>

\* Client.Terminate: close(c.pointsChan)
ClientTerminate ==
    /\ Alive /\ ipc = "stopped"
    /\ ipc' = "terminated"
    /\ ipclosed' = TRUE
    /\ UNCHANGED <<istop, wg, wpc, wafter, points, inflight, ppc, pbatch,
                   pnext, ticks, shipped, fcause, flen,
                   lastFailed, lastOutcome, accepted, finalFlushes, icrashed>>
    /\ UNCHANGED <<dvars, xvars>>

\* a producer calls EnqueuePoint / EnqueuePoints with k new points and
\* reaches the select
Submit(p, k) ==
    /\ Alive /\ ppc[p] = "idle"
    /\ Created + k <= MaxPoints
    /\ ppc' = [ppc EXCEPT ![p] = "call"]
    /\ pbatch' = [pbatch EXCEPT ![p] = NewPoints(p, k)]
    /\ pnext' = [pnext EXCEPT ![p] = pnext[p] + k]
    /\ UNCHANGED <<ipc, istop, ipclosed, wg, wpc, wafter, points, inflight,
                   ticks, shipped, fcause, flen, lastFailed, lastOutcome,
                   accepted,
                   finalFlushes, icrashed>>
    /\ UNCHANGED <<dvars, xvars>>

\* goProbeMain, case <-timer.C: two points, then EnqueuePoints
ProbeTick ==
    /\ Alive /\ ppc[Probe] = "loop"
    /\ pnext[Probe] < 2 * MaxProbeTicks
    /\ ppc' = [ppc EXCEPT ![Probe] = "call"]
    /\ pbatch' = [pbatch EXCEPT ![Probe] = NewPoints(Probe, 2)]
    /\ pnext' = [pnext EXCEPT ![Probe] = pnext[Probe] + 2]
    /\ UNCHANGED <<ipc, istop, ipclosed, wg, wpc, wafter, points, inflight,
                   ticks, shipped, fcause, flen, lastFailed, lastOutcome,
                   accepted,
                   finalFlushes, icrashed>>
    /\ UNCHANGED <<dvars, xvars>>

\* goProbeMain, case <-c.stopChan: return (wg.Done)
ProbeStop ==
    /\ Alive /\ ppc[Probe] = "loop"
    /\ istop
    /\ ppc' = [ppc EXCEPT ![Probe] = "done"]
    /\ wg' = wg - 1
    /\ UNCHANGED <<ipc, istop, ipclosed, wpc, wafter, points, inflight,
                   pbatch, pnext, ticks, shipped, fcause, flen,
                   lastFailed, lastOutcome, accepted, finalFlushes, icrashed>>
    /\ UNCHANGED <<dvars, xvars>>

\* where a sender is after EnqueuePoints has returned
Returned(s) == IF s = Probe THEN "loop" ELSE "idle"

\* EnqueueStop as in a select without the stop case: never taken
EnqueueStop_Absent(s) ==
    /\ Alive /\ ppc[s] = "call"
    /\ FALSE
    /\ UNCHANGED vars

\* EnqueuePoints, case <-c.stopChan: return, the points are dropped
EnqueueStop(s) ==
    /\ Alive /\ ppc[s] = "call"
    /\ istop
    /\ ppc' = [ppc EXCEPT ![s] = Returned(s)]
    /\ pbatch' = [pbatch EXCEPT ![s] = <<>>]
    /\ UNCHANGED <<ipc, istop, ipclosed, wg, wpc, wafter, points, inflight,
                   pnext, ticks, shipped, fcause, flen,
                   lastFailed, lastOutcome, accepted, finalFlushes, icrashed>>
    /\ UNCHANGED <<dvars, xvars>>

\* EnqueuePoints, case c.pointsChan <- points, meeting main's
\* case ps := <-c.pointsChan: the sender returns, the worker runs
\* enqueuePoints(ps)
EnqueueSend(s) ==
    /\ Alive /\ ppc[s] = "call"
    /\ ~ipclosed
    /\ wpc = "select"
    /\ ppc' = [ppc EXCEPT ![s] = Returned(s)]
    /\ pbatch' = [pbatch EXCEPT ![s] = <<>>]
    /\ enqueuePoints(pbatch[s])
    /\ accepted' = accepted \cup {pbatch[s][i] : i \in 1..Len(pbatch[s])}
    /\ UNCHANGED <<ipc, istop, ipclosed, pnext, ticks, shipped, lastFailed,
                   lastOutcome, finalFlushes, icrashed>>
    /\ UNCHANGED <<dvars, xvars>>

\* EnqueuePoints, case c.pointsChan <- points on the channel closed by
\* Terminate: the send panics
EnqueuePanic(s) ==
    /\ Alive /\ ppc[s] = "call"
    /\ ipclosed
    /\ ppc' = [ppc EXCEPT ![s] = "panicked"]
    /\ icrashed' = TRUE
    /\ UNCHANGED <<ipc, istop, ipclosed, wg, wpc, wafter, points, inflight,
                   pbatch, pnext, ticks, shipped, fcause, flen,
                   lastFailed, lastOutcome, accepted, finalFlushes>>
    /\ UNCHANGED <<dvars, xvars>>

\* main, case <-timer.C: c.flush()
WorkerTick ==
    /\ Alive /\ wpc = "select"
    /\ ticks < MaxTicks
    /\ ticks' = ticks + 1
    /\ Flush(points, "tick", "loop")
    /\ UNCHANGED <<ipc, istop, ipclosed, ppc, pbatch, pnext, shipped,
                   lastFailed, lastOutcome, accepted, finalFlushes, icrashed>>
    /\ UNCHANGED <<dvars, xvars>>

\* WorkerStop going back to the loop after the flush instead of returning
WorkerStop_Retry ==
    /\ Alive /\ wpc = "select"
    /\ istop
    /\ finalFlushes' = finalFlushes + 1
    /\ Flush(points, "stop", "loop")
    /\ UNCHANGED <<ipc, istop, ipclosed, ppc, pbatch, pnext, ticks, shipped,
                   lastFailed, lastOutcome, accepted, icrashed>>
    /\ UNCHANGED <<dvars, xvars>>

\* main, case <-c.stopChan: c.flush(); return
WorkerStop ==
    /\ Alive /\ wpc = "select"
    /\ istop
    /\ finalFlushes' = finalFlushes + 1
    /\ Flush(points, "stop", "exit")
    /\ UNCHANGED <<ipc, istop, ipclosed, ppc, pbatch, pnext, ticks, shipped,
                   lastFailed, lastOutcome, accepted, icrashed>>
    /\ UNCHANGED <<dvars, xvars>>

\* the outcomes of sendPoints: a 2xx response, a transport error of
\* HTTPClient.Do, a response with another status
Outcomes == {"2xx", "error", "status"}

\* FlushEnd clearing the buffer whatever the outcome of the request
FlushEnd_AlwaysClear(o) ==
    /\ Alive /\ wpc = "flushing"
    /\ points' = <<>>
    /\ IF o = "2xx"
         THEN /\ shipped' = shipped \o inflight
              /\ lastFailed' = <<>>
         ELSE /\ lastFailed' = inflight
              /\ UNCHANGED shipped
    /\ inflight' = <<>>
    /\ lastOutcome' = o
    /\ wpc' = IF wafter = "exit" THEN "done" ELSE "select"
    /\ wg' = IF wafter = "exit" THEN wg - 1 ELSE wg
    /\ UNCHANGED <<ipc, istop, ipclosed, wafter, ppc, pbatch, pnext, ticks,
                   fcause, flen, accepted, finalFlushes, icrashed>>
    /\ UNCHANGED <<dvars, xvars>>

\* Client.flush, from the response on: clear the buffer after a 2xx
\* response, log and keep it otherwise; then main loops or returns
FlushEnd(o) ==
    /\ Alive /\ wpc = "flushing"
    /\ IF o = "2xx"
         THEN /\ points' = <<>>
              /\ shipped' = shipped \o inflight
              /\ lastFailed' = <<>>
         ELSE /\ lastFailed' = inflight
              /\ UNCHANGED <<points, shipped>>
    /\ inflight' = <<>>
    /\ lastOutcome' = o
    /\ wpc' = IF wafter = "exit" THEN "done" ELSE "select"
    /\ wg' = IF wafter = "exit" THEN wg - 1 ELSE wg
    /\ UNCHANGED <<ipc, istop, ipclosed, wafter, ppc, pbatch, pnext, ticks,
                   fcause, flen, accepted, finalFlushes, icrashed>>
    /\ UNCHANGED <<dvars, xvars>>

InitInflux == InitClient /\ InitDaemon /\ cfgInflux /\ ~cfgPg /\ XIdle

NextInflux ==
    \/ ClientStart
    \/ ClientStopClose
    \/ ClientStopWait
    \/ ClientTerminate
    \/ \E p \in Producers : \E k \in 1..MaxCall : Submit(p, k)
    \/ ProbeTick
    \/ ProbeStop
    \/ \E s \in Senders : EnqueueStop(s)
    \/ \E s \in Senders : EnqueueSend(s)
    \/ \E s \in Senders : EnqueuePanic(s)
    \/ WorkerTick
    \/ WorkerStop
    \/ \E o \in Outcomes : FlushEnd(o)

SpecInflux == InitInflux /\ [][NextInflux]_vars

\* ---------------------------------------------------------------------
\* The supervisor: Run / RunTest
\* ---------------------------------------------------------------------

Init == InitDaemon /\ InitClient /\ XIdle

Next ==
    \/ InitOk
    \/ InitFail
    \/ \E s \in Servers : StartServerOk(s)
    \/ \E s \in Servers : StartServerFail(s)
    \/ StartInflux
    \/ StartServiceOk
    \/ StartServiceFail
    \/ Signal
    \/ \E c \in Components : Fatal(c)
    \/ WaitSignal
    \/ WaitError
    \/ StopService
    \/ StopPg
    \/ StopInflux
    \/ \E s \in Servers : StopServerClose(s)
    \/ \E s \in Servers : StopServerWait(s)
    \/ TerminateService
    \/ TerminateInflux
    \/ TerminateHTTPClients
    \/ \E s \in Servers : TerminateServer(s)
    \/ TerminateChans
    \/ Return
    \/ \E s \in Servers : ServeFails(s)
    \/ \E s \in Servers : ServeClosed(s)
    \/ \E s \in Servers : ServeSendError(s)
    \/ \E s \in Servers : ServeSendClosed(s)
    \/ \E s \in Servers : MainStop(s)

Spec == Init /\ [][Next]_vars

\* The goroutines are scheduled: a sender inside the select of
\* EnqueuePoints, the worker's stop branch, the end of the write request
\* (the HTTP client has a timeout) and the self-probe's stop branch.
SpecInfluxFair ==
    /\ SpecInflux
    /\ \A s \in Senders :
          WF_vars(EnqueueStop(s) \/ EnqueueSend(s) \/ EnqueuePanic(s))
    /\ WF_vars(WorkerStop)
    /\ WF_vars(\E o \in Outcomes : FlushEnd(o))
    /\ WF_vars(ProbeStop)

\* the main goroutine is scheduled: the select of Daemon.wait takes one
\* of its ready cases
SpecFair == Spec /\ WF_vars(WaitError \/ WaitSignal)

\* ---------------------------------------------------------------------
\* The database client: WithConn, WithTx, UpdateSchema (pg/client.go)
\* and the migrations (pg/migrations.go)
\* ---------------------------------------------------------------------

\* ms[i].Version < ms[j].Version: Go compares strings byte by byte
Less(a, b) ==
    \E i \in 1..(Len(a) + 1) :
        /\ \A j \in 1..(i - 1) : j <= Len(b) /\ a[j] = b[j]
        /\ \/ i > Len(a) /\ i <= Len(b)
           \/ i <= Len(a) /\ i <= Len(b) /\ a[i] < b[i]

\* Migrations.Sort: ascending order of Version
RECURSIVE Sort(_)
Sort(ms) ==
    IF ms = <<>> THEN <<>>
    ELSE LET i == CHOOSE i \in 1..Len(ms) :
                      \A j \in 1..Len(ms) : ~Less(ms[j], ms[i])
         IN <<ms[i]>> \o Sort(
                SubSeq(ms, 1, i - 1) \o SubSeq(ms, i + 1, Len(ms)))

\* Migrations.RejectVersions_KeepsAll: nothing is rejected
RejectVersions_KeepsAll(ms, versions) == ms

\* Migrations.RejectVersions: drop the migrations found in versions
RejectVersions(ms, versions) ==
    LET Pending(m) == m \notin versions IN SelectSeq(ms, Pending)

\* the migration the loop of UpdateSchema is at
Current(p) == migrations[p][midx[p]]

\* the function given to WithTx returns r: WithTx rolls back on an
\* error, and commits (in its deferred function) otherwise
FnReturn(p, l, r) ==
    /\ fnres' = [fnres EXCEPT ![p][l] = r]
    /\ tpc' = [tpc EXCEPT ![p][l] = IF r = "err" THEN "rollback"
                                     ELSE "commit"]

\* the transaction of the connection ends; the advisory lock taken
\* with pg_advisory_xact_lock goes with the outer transaction
Unlock(p, l) ==
    lockHolder' = IF l = "outer" /\ lockHolder = p THEN "none"
                  ELSE lockHolder

\* a statement WithTx sent, with the result of conn.Exec
Stmt(name, ok) == [name |-> name, ok |-> ok]

\* UpdateSchema, up to the call of WithTx: LoadDirectory; an error or an
\* empty directory ends the call
LoadDirectory(p, ok) ==
    /\ upc[p] = "idle"
    /\ migrations' = [migrations EXCEPT ![p] = IF ok THEN dir ELSE <<>>]
    /\ IF ok /\ dir # <<>>
       THEN /\ upc' = [upc EXCEPT ![p] = "withTx"]
            /\ tpc' = [tpc EXCEPT ![p]["outer"] = "acquire"]
            /\ uret' = uret
       ELSE /\ upc' = [upc EXCEPT ![p] = "done"]
            /\ tpc' = tpc
            /\ uret' = [uret EXCEPT ![p] = IF ok THEN "nil" ELSE "err"]
    /\ UNCHANGED <<dir, schemaVersions, committed, lockHolder, lockOrder,
                   midx, pendingAt, attempts, txlog, fnres, txret, held>>
    /\ UNCHANGED <<notpg>>

\* WithTx: c.Pool.Acquire; on an error WithTx returns it
TxAcquire(p, l, ok) ==
    /\ tpc[p][l] = "acquire"
    /\ IF ok
       THEN /\ held' = [held EXCEPT ![p] = @ \cup {l}]
            /\ tpc' = [tpc EXCEPT ![p][l] = "begin"]
            /\ txret' = txret
       ELSE /\ held' = held
            /\ tpc' = [tpc EXCEPT ![p][l] = "returned"]
            /\ txret' = [txret EXCEPT ![p][l] = "acquireErr"]
    /\ UNCHANGED <<dir, schemaVersions, committed, lockHolder, lockOrder,
                   upc, migrations, midx, pendingAt, attempts, txlog,
                   fnres, uret>>
    /\ UNCHANGED <<notpg>>

\* WithTx: BEGIN; on an error the deferred Release runs and WithTx
\* returns the error; otherwise fn(conn) starts
TxBegin(p, l, ok) ==
    /\ tpc[p][l] = "begin"
    /\ txlog' = [txlog EXCEPT ![p][l] = Append(@, Stmt("BEGIN", ok))]
    /\ IF ok
       THEN /\ tpc' = [tpc EXCEPT ![p][l] = "fn"]
            /\ upc' = [upc EXCEPT ![p] = IF l = "outer" THEN "lock"
                                          ELSE "applyExec"]
            /\ UNCHANGED <<held, txret>>
       ELSE /\ tpc' = [tpc EXCEPT ![p][l] = "returned"]
            /\ txret' = [txret EXCEPT ![p][l] = "beginErr"]
            /\ held' = [held EXCEPT ![p] = @ \ {l}]
            /\ upc' = upc
    /\ UNCHANGED <<dir, schemaVersions, committed, lockHolder, lockOrder,
                   migrations, midx, pendingAt, attempts, fnres, uret>>
    /\ UNCHANGED <<notpg>>

\* TxRollback_AlsoCommits: the deferred function sends COMMIT also
\* after an error of fn
TxRollback_AlsoCommits(p, l, ok) ==
    /\ tpc[p][l] = "rollback"
    /\ txlog' = [txlog EXCEPT ![p][l] =
           @ \o <<Stmt("ROLLBACK", ok), Stmt("COMMIT", TRUE)>>]
    /\ txret' = [txret EXCEPT ![p][l] = "fnErr"]
    /\ held' = [held EXCEPT ![p] = @ \ {l}]
    /\ tpc' = [tpc EXCEPT ![p][l] = "returned"]
    /\ Unlock(p, l)
    /\ UNCHANGED <<dir, schemaVersions, committed, lockOrder, upc,
                   migrations, midx, pendingAt, attempts, fnres, uret>>
    /\ UNCHANGED <<notpg>>

\* WithTx: fn returned an error: ROLLBACK (a failure of it is only
\* logged), the deferred function does not commit, Release. A
\* connection released inside a transaction is destroyed by the pool,
\* so that the transaction ends whether or not ROLLBACK succeeded
TxRollback(p, l, ok) ==
    /\ tpc[p][l] = "rollback"
    /\ txlog' = [txlog EXCEPT ![p][l] =
           Append(@, Stmt("ROLLBACK", ok))]
    /\ txret' = [txret EXCEPT ![p][l] = "fnErr"]
    /\ held' = [held EXCEPT ![p] = @ \ {l}]
    /\ tpc' = [tpc EXCEPT ![p][l] = "returned"]
    /\ Unlock(p, l)
    /\ UNCHANGED <<dir, schemaVersions, committed, lockOrder, upc,
                   migrations, midx, pendingAt, attempts, fnres, uret>>
    /\ UNCHANGED <<notpg>>

\* WithTx: fn returned nil: the deferred function sends COMMIT, a
\* failure of which becomes the returned error; Release. The commit of
\* a migration makes its SQL and its version row visible together
TxCommit(p, l, ok) ==
    /\ tpc[p][l] = "commit"
    /\ txlog' = [txlog EXCEPT ![p][l] = Append(@, Stmt("COMMIT", ok))]
    /\ txret' = [txret EXCEPT ![p][l] = IF ok THEN "nil"
                                         ELSE "commitErr"]
    /\ held' = [held EXCEPT ![p] = @ \ {l}]
    /\ tpc' = [tpc EXCEPT ![p][l] = "returned"]
    /\ Unlock(p, l)
    /\ IF ok /\ l = "inner"
       THEN /\ committed' = Append(committed,
                   [by |-> p, version |-> Current(p)])
            /\ schemaVersions' = schemaVersions \cup {Current(p)}
       ELSE UNCHANGED <<committed, schemaVersions>>
    /\ UNCHANGED <<dir, lockOrder, upc, migrations, midx, pendingAt,
                   attempts, fnres, uret>>
    /\ UNCHANGED <<notpg>>

\* TakeAdvisoryLock_NoWait: the lock is granted while another
\* transaction holds it
TakeAdvisoryLock_NoWait(p, ok) ==
    /\ upc[p] = "lock" /\ tpc[p]["outer"] = "fn"
    /\ IF ok
       THEN /\ lockHolder' = p
            /\ lockOrder' = Append(lockOrder, p)
            /\ upc' = [upc EXCEPT ![p] = "create"]
            /\ UNCHANGED <<fnres, tpc>>
       ELSE /\ UNCHANGED <<lockHolder, lockOrder>>
            /\ upc' = [upc EXCEPT ![p] = "fnret"]
            /\ FnReturn(p, "outer", "err")
    /\ UNCHANGED <<dir, schemaVersions, committed, migrations, midx,
                   pendingAt, attempts, txlog, txret, held, uret>>
    /\ UNCHANGED <<notpg>>

\* the function of the outer WithTx: TakeAdvisoryLock, which waits
\* while another transaction holds the lock
TakeAdvisoryLock(p, ok) ==
    /\ upc[p] = "lock" /\ tpc[p]["outer"] = "fn"
    /\ IF ok
       THEN /\ lockHolder = "none"
            /\ lockHolder' = p
            /\ lockOrder' = Append(lockOrder, p)
            /\ upc' = [upc EXCEPT ![p] = "create"]
            /\ UNCHANGED <<fnres, tpc>>
       ELSE /\ UNCHANGED <<lockHolder, lockOrder>>
            /\ upc' = [upc EXCEPT ![p] = "fnret"]
            /\ FnReturn(p, "outer", "err")
    /\ UNCHANGED <<dir, schemaVersions, committed, migrations, midx,
                   pendingAt, attempts, txlog, txret, held, uret>>
    /\ UNCHANGED <<notpg>>

\* WithConn(createSchemaVersionTable): c.Pool.Acquire, on a connection
\* other than the one of the outer transaction
CreateTableAcquire(p, ok) ==
    /\ upc[p] = "create"
    /\ IF ok
       THEN /\ held' = [held EXCEPT ![p] = @ \cup {"conn"}]
            /\ upc' = [upc EXCEPT ![p] = "createRun"]
            /\ UNCHANGED <<fnres, tpc>>
       ELSE /\ held' = held
            /\ upc' = [upc EXCEPT ![p] = "fnret"]
            /\ FnReturn(p, "outer", "err")
    /\ UNCHANGED <<dir, schemaVersions, committed, lockHolder, lockOrder,
                   migrations, midx, pendingAt, attempts, txlog, txret,
                   uret>>
    /\ UNCHANGED <<notpg>>

\* WithConn(createSchemaVersionTable): fn(conn), then the deferred
\* Release
CreateTableRun(p, ok) ==
    /\ upc[p] = "createRun"
    /\ held' = [held EXCEPT ![p] = @ \ {"conn"}]
    /\ IF ok
       THEN /\ upc' = [upc EXCEPT ![p] = "load"]
            /\ UNCHANGED <<fnres, tpc>>
       ELSE /\ upc' = [upc EXCEPT ![p] = "fnret"]
            /\ FnReturn(p, "outer", "err")
    /\ UNCHANGED <<dir, schemaVersions, committed, lockHolder, lockOrder,
                   migrations, midx, pendingAt, attempts, txlog, txret,
                   uret>>
    /\ UNCHANGED <<notpg>>

\* loadSchemaVersions on the outer connection, then RejectVersions and
\* Sort
LoadSchemaVersions(p, ok) ==
    /\ upc[p] = "load"
    /\ IF ok
       THEN /\ migrations' = [migrations EXCEPT ![p] =
                   Sort(RejectVersions(@, schemaVersions))]
            /\ pendingAt' = [pendingAt EXCEPT ![p] =
                   Len(migrations'[p])]
            /\ upc' = [upc EXCEPT ![p] = "loop"]
            /\ UNCHANGED <<fnres, tpc>>
       ELSE /\ UNCHANGED <<migrations, pendingAt>>
            /\ upc' = [upc EXCEPT ![p] = "fnret"]
            /\ FnReturn(p, "outer", "err")
    /\ UNCHANGED <<dir, schemaVersions, committed, lockHolder, lockOrder,
                   midx, attempts, txlog, txret, held, uret>>
    /\ UNCHANGED <<notpg>>

\* the loop over the migrations: c.WithTx(m.Apply) for the next one,
\* return nil after the last
ApplyNext(p) ==
    /\ upc[p] = "loop"
    /\ IF midx[p] <= Len(migrations[p])
       THEN /\ upc' = [upc EXCEPT ![p] = "apply"]
            /\ tpc' = [tpc EXCEPT ![p]["inner"] = "acquire"]
            /\ fnres' = [fnres EXCEPT ![p]["inner"] = "none"]
            /\ txlog' = [txlog EXCEPT ![p]["inner"] = <<>>]
            /\ txret' = [txret EXCEPT ![p]["inner"] = "none"]
       ELSE /\ upc' = [upc EXCEPT ![p] = "fnret"]
            /\ FnReturn(p, "outer", "ok")
            /\ UNCHANGED <<txlog, txret>>
    /\ UNCHANGED <<dir, schemaVersions, committed, lockHolder, lockOrder,
                   migrations, midx, pendingAt, attempts, held, uret>>
    /\ UNCHANGED <<notpg>>

\* Migration.Apply: execute the code of the migration
ApplyExec(p, ok) ==
    /\ upc[p] = "applyExec"
    /\ attempts' = [attempts EXCEPT ![p] = Append(@, Current(p))]
    /\ IF ok
       THEN /\ upc' = [upc EXCEPT ![p] = "applyInsert"]
            /\ UNCHANGED <<fnres, tpc>>
       ELSE /\ upc' = [upc EXCEPT ![p] = "apply"]
            /\ FnReturn(p, "inner", "err")
    /\ UNCHANGED <<dir, schemaVersions, committed, lockHolder, lockOrder,
                   migrations, midx, pendingAt, txlog, txret, held, uret>>
    /\ UNCHANGED <<notpg>>

\* Migration.Apply: insert the version row; the primary key
\* (schema, version) refuses a version that is already recorded
ApplyInsert(p, ok) ==
    /\ upc[p] = "applyInsert"
    /\ ok => Current(p) \notin schemaVersions
    /\ upc' = [upc EXCEPT ![p] = "apply"]
    /\ FnReturn(p, "inner", IF ok THEN "ok" ELSE "err")
    /\ UNCHANGED <<dir, schemaVersions, committed, lockHolder, lockOrder,
                   migrations, midx, pendingAt, attempts, txlog, txret,
                   held, uret>>
    /\ UNCHANGED <<notpg>>

\* ApplyReturned_Continues: the error of a migration does not end the
\* loop
ApplyReturned_Continues(p) ==
    /\ upc[p] = "apply" /\ tpc[p]["inner"] = "returned"
    /\ midx' = [midx EXCEPT ![p] = @ + 1]
    /\ upc' = [upc EXCEPT ![p] = "loop"]
    /\ tpc' = [tpc EXCEPT ![p]["inner"] = "none"]
    /\ fnres' = fnres
    /\ UNCHANGED <<dir, schemaVersions, committed, lockHolder, lockOrder,
                   migrations, pendingAt, attempts, txlog, txret, held,
                   uret>>
    /\ UNCHANGED <<notpg>>

\* c.WithTx(m.Apply) returned: an error ends the loop and is returned
\* by the function of the outer WithTx
ApplyReturned(p) ==
    /\ upc[p] = "apply" /\ tpc[p]["inner"] = "returned"
    /\ IF txret[p]["inner"] = "nil"
       THEN /\ midx' = [midx EXCEPT ![p] = @ + 1]
            /\ upc' = [upc EXCEPT ![p] = "loop"]
            /\ tpc' = [tpc EXCEPT ![p]["inner"] = "none"]
            /\ fnres' = fnres
       ELSE /\ midx' = midx
            /\ upc' = [upc EXCEPT ![p] = "fnret"]
            /\ fnres' = [fnres EXCEPT ![p]["outer"] = "err"]
            /\ tpc' = [tpc EXCEPT ![p]["outer"] = "rollback",
                                 ![p]["inner"] = "none"]
    /\ UNCHANGED <<dir, schemaVersions, committed, lockHolder, lockOrder,
                   migrations, pendingAt, attempts, txlog, txret, held,
                   uret>>
    /\ UNCHANGED <<notpg>>

\* the outer WithTx returned: UpdateSchema returns its error, or closes
\* the idle connections and returns nil
UpdateSchemaReturn(p) ==
    /\ upc[p] # "done" /\ tpc[p]["outer"] = "returned"
    /\ upc' = [upc EXCEPT ![p] = "done"]
    /\ uret' = [uret EXCEPT ![p] = IF txret[p]["outer"] = "nil"
                                     THEN "nil" ELSE "err"]
    /\ UNCHANGED <<dir, schemaVersions, committed, lockHolder, lockOrder,
                   migrations, midx, pendingAt, attempts, tpc, txlog,
                   fnres, txret, held>>
    /\ UNCHANGED <<notpg>>

\* the pools are connected; the schema directory is empty or holds
\* MaxMigrations files, of which any number is already recorded, and
\* schema_versions may hold versions whose file is gone
InitPg ==
    /\ InitDaemon /\ ~cfgInflux /\ cfgPg
    /\ InitClient
    /\ HttpIdle /\ TlsIdle /\ CheckIdle /\ YIdle
    /\ \E n \in {0, MaxMigrations} :
       \E sv \in SUBSET {VersionOf(i) : i \in 0..MaxMigrations} :
           PgStart(Listing(n), sv)

NextPg ==
    \E p \in Procs :
        \/ \E ok \in BOOLEAN : LoadDirectory(p, ok)
        \/ \E l \in Levels : \E ok \in BOOLEAN : TxAcquire(p, l, ok)
        \/ \E l \in Levels : \E ok \in BOOLEAN : TxBegin(p, l, ok)
        \/ \E l \in Levels : \E ok \in BOOLEAN : TxRollback(p, l, ok)
        \/ \E l \in Levels : \E ok \in BOOLEAN : TxCommit(p, l, ok)
        \/ \E ok \in BOOLEAN : TakeAdvisoryLock(p, ok)
        \/ \E ok \in BOOLEAN : CreateTableAcquire(p, ok)
        \/ \E ok \in BOOLEAN : CreateTableRun(p, ok)
        \/ \E ok \in BOOLEAN : LoadSchemaVersions(p, ok)
        \/ ApplyNext(p)
        \/ \E ok \in BOOLEAN : ApplyExec(p, ok)
        \/ \E ok \in BOOLEAN : ApplyInsert(p, ok)
        \/ ApplyReturned(p)
        \/ UpdateSchemaReturn(p)

SpecPg == InitPg /\ [][NextPg]_vars

\* the function given to WithTx panics after partial work, here
\* Migration.Apply after the code of the migration ran and before the
\* version row is inserted. The deferred function of WithTx runs with
\* err still nil and sends COMMIT, the deferred Release follows; the
\* panic goes on through the function of the outer WithTx, whose
\* deferred function commits as well, and ends UpdateSchema. The code
\* of the migration is committed without its version row
ApplyPanic(p, okInner, okOuter) ==
    /\ upc[p] = "applyInsert" /\ tpc[p]["inner"] = "fn"
    /\ fnres' = [fnres EXCEPT ![p]["inner"] = "panic",
                              ![p]["outer"] = "panic"]
    /\ txlog' = [txlog EXCEPT
           ![p]["inner"] = Append(@, Stmt("COMMIT", okInner)),
           ![p]["outer"] = Append(@, Stmt("COMMIT", okOuter))]
    /\ committed' = IF okInner
                    THEN Append(committed,
                             [by |-> p, version |-> Current(p)])
                    ELSE committed
    /\ held' = [held EXCEPT ![p] = {}]
    /\ lockHolder' = IF lockHolder = p THEN "none" ELSE lockHolder
    /\ tpc' = [tpc EXCEPT ![p]["inner"] = "panicked",
                          ![p]["outer"] = "panicked"]
    /\ upc' = [upc EXCEPT ![p] = "panicked"]
    /\ uret' = [uret EXCEPT ![p] = "panic"]
    /\ UNCHANGED <<dir, schemaVersions, lockOrder, migrations, midx,
                   pendingAt, attempts, txret>>
    /\ UNCHANGED <<notpg>>

\* UpdateSchema calls whose migrations may panic
NextTxPanic ==
    \/ NextPg
    \/ \E p \in Procs : \E okInner, okOuter \in BOOLEAN :
           ApplyPanic(p, okInner, okOuter)

SpecTxPanic == InitPg /\ [][NextTxPanic]_vars

\* the connections of the pool: pgxpool.ConnectConfig limits them with
\* pool_max_conns of the URI; here as many as there are callers
PoolSize == Cardinality(Procs)

RECURSIVE CountHeld(_)
\* the connections the callers in ps have acquired and not released
CountHeld(ps) ==
    IF ps = {} THEN 0
    ELSE LET p == CHOOSE q \in ps : TRUE
         IN Cardinality(held[p]) + CountHeld(ps \ {p})

\* the connections of the pool that are in use
InUse == CountHeld(Procs)

\* c.Pool.Acquire of WithTx with context.Background(): it returns, with
\* a connection or with the error of making one, only while the pool is
\* not exhausted, and waits otherwise
PoolTxAcquire(p, l, ok) == InUse < PoolSize /\ TxAcquire(p, l, ok)

\* c.Pool.Acquire of WithConn, the same
PoolCreateTableAcquire(p, ok) ==
    InUse < PoolSize /\ CreateTableAcquire(p, ok)

\* UpdateSchema calls that share the pool of one client
NextPool ==
    \E p \in Procs :
        \/ \E ok \in BOOLEAN : LoadDirectory(p, ok)
        \/ \E l \in Levels : \E ok \in BOOLEAN : PoolTxAcquire(p, l, ok)
        \/ \E l \in Levels : \E ok \in BOOLEAN : TxBegin(p, l, ok)
        \/ \E l \in Levels : \E ok \in BOOLEAN : TxRollback(p, l, ok)
        \/ \E l \in Levels : \E ok \in BOOLEAN : TxCommit(p, l, ok)
        \/ \E ok \in BOOLEAN : TakeAdvisoryLock(p, ok)
        \/ \E ok \in BOOLEAN : PoolCreateTableAcquire(p, ok)
        \/ \E ok \in BOOLEAN : CreateTableRun(p, ok)
        \/ \E ok \in BOOLEAN : LoadSchemaVersions(p, ok)
        \/ ApplyNext(p)
        \/ \E ok \in BOOLEAN : ApplyExec(p, ok)
        \/ \E ok \in BOOLEAN : ApplyInsert(p, ok)
        \/ ApplyReturned(p)
        \/ UpdateSchemaReturn(p)

SpecPool == InitPg /\ [][NextPool]_vars

\* ---------------------------------------------------------------------
\* The HTTP request pipeline: Server.ServeHTTP (dhttp/server.go) and the
\* request Handler (dhttp/handler.go)
\* ---------------------------------------------------------------------

\* what the chi router does with a request
Kinds == {"routed", "notFound", "methodNotAllowed"}

\* values a route function panics with: an error, a string, another value
PanicValues == {[type |-> "error", text |-> "e1"],
                [type |-> "string", text |-> "s1"],
                [type |-> "int", text |-> "42"]}

\* ResponseWriter.WriteHeader: record the status and pass it on; the
\* connection keeps the first status it was given
WriteHeader(w, status) ==
    [w EXCEPT !.status = status,
              !.sent = IF w.sent = 0 THEN status ELSE w.sent]

\* ResponseWriter.Write: the connection sends 200 if no status was given
Write(w, data) ==
    [w EXCEPT !.body = Append(w.body, data),
              !.sent = IF w.sent = 0 THEN 200 ELSE w.sent]

\* Handler.Reply with a body
Reply(w, status, data) == Write(WriteHeader(w, status), data)

\* APIError as encoded by encoding/json: Message is the member "error",
\* Code the member "code"
EncodeAPIError(msg, code) == [error |-> msg, code |-> code]

\* Server.handleError without a custom ErrorHandler, and Handler.ReplyJSON
handleError(w, status, code, msg) ==
    Reply(w, status, EncodeAPIError(msg, code))

\* no panic
NoPanic == [type |-> "none", text |-> ""]

\* Handler.handlePanic: the message taken from the panic value; %#v of an
\* integer is its decimal text
handlePanic(value) ==
    CASE value.type = "error" -> value.text
      [] value.type = "string" -> value.text
      [] OTHER -> value.text

\* the request line written by Handler.logRequest
RequestLine(r) ==
    [status |-> rw[r].status, size |-> Len(rw[r].body),
     error |-> errorCode[r]]

\* ServeHTTP_LogsAtEntry: logRequest is called, not deferred
ServeHTTP_LogsAtEntry(r, k) ==
    /\ hpc[r] = "new"
    /\ hkind' = [hkind EXCEPT ![r] = k]
    /\ hpc' = [hpc EXCEPT ![r] = "router"]
    /\ rlog' = [rlog EXCEPT ![r] = Append(@, RequestLine(r))]
    /\ doneBefore' = [doneBefore EXCEPT ![r] =
           {q \in Requests : hpc[q] = "done"}]
    /\ UNCHANGED <<hideInternalErrors, pval, rw, errorCode, errlog, script,
                   escaped>>
    /\ UNCHANGED <<nothttp>>

\* Server.ServeHTTP: a new Handler for the request, logRequest and the
\* recovery deferred, then the router
ServeHTTP(r, k) ==
    /\ hpc[r] = "new"
    /\ hkind' = [hkind EXCEPT ![r] = k]
    /\ hpc' = [hpc EXCEPT ![r] = "router"]
    /\ doneBefore' = [doneBefore EXCEPT ![r] =
           {q \in Requests : hpc[q] = "done"}]
    /\ UNCHANGED <<hideInternalErrors, pval, rw, errorCode, rlog, errlog,
                   script, escaped>>
    /\ UNCHANGED <<nothttp>>

\* Server.handleNotFound: ReplyError, then ServeHTTP returns
HandleNotFound(r) ==
    /\ hpc[r] = "router" /\ hkind[r] = "notFound"
    /\ errorCode' = [errorCode EXCEPT ![r] = "route_not_found"]
    /\ rw' = [rw EXCEPT ![r] =
           handleError(@, 404, "route_not_found", "route not found")]
    /\ hpc' = [hpc EXCEPT ![r] = "logging"]
    /\ UNCHANGED <<hideInternalErrors, hkind, pval, rlog, errlog, script,
                   escaped, doneBefore>>
    /\ UNCHANGED <<nothttp>>

\* Server.handleMethodNotAllowed: ReplyError, then ServeHTTP returns
HandleMethodNotAllowed(r) ==
    /\ hpc[r] = "router" /\ hkind[r] = "methodNotAllowed"
    /\ errorCode' = [errorCode EXCEPT ![r] = "unhandled_method"]
    /\ rw' = [rw EXCEPT ![r] =
           handleError(@, 405, "unhandled_method", "unhandled method")]
    /\ hpc' = [hpc EXCEPT ![r] = "logging"]
    /\ UNCHANGED <<hideInternalErrors, hkind, pval, rlog, errlog, script,
                   escaped, doneBefore>>
    /\ UNCHANGED <<nothttp>>

\* the function registered by Server.Route calls the route function
Route(r) ==
    /\ hpc[r] = "router" /\ hkind[r] = "routed"
    /\ hpc' = [hpc EXCEPT ![r] = "handler"]
    /\ UNCHANGED <<hideInternalErrors, hkind, pval, rw, errorCode, rlog,
                   errlog, script, escaped, doneBefore>>
    /\ UNCHANGED <<nothttp>>

\* the route function calls Handler.ReplyJSON(200, value)
RouteReplyJSON(r) ==
    /\ hpc[r] = "handler" /\ Len(script[r]) < MaxReplies
    /\ rw' = [rw EXCEPT ![r] = Reply(@, 200, [value |-> "v"])]
    /\ script' = [script EXCEPT ![r] = Append(@, 200)]
    /\ UNCHANGED <<hideInternalErrors, hpc, hkind, pval, errorCode, rlog,
                   errlog, escaped, doneBefore>>
    /\ UNCHANGED <<nothttp>>

\* the route function calls Handler.ReplyError(400, code, ...)
RouteReplyError(r) ==
    /\ hpc[r] = "handler" /\ Len(script[r]) < MaxReplies
    /\ errorCode' = [errorCode EXCEPT ![r] = "invalid_request"]
    /\ rw' = [rw EXCEPT ![r] =
           handleError(@, 400, "invalid_request", "invalid request")]
    /\ script' = [script EXCEPT ![r] = Append(@, 400)]
    /\ UNCHANGED <<hideInternalErrors, hpc, hkind, pval, rlog, errlog,
                   escaped, doneBefore>>
    /\ UNCHANGED <<nothttp>>

\* the route function calls Handler.ReplyErrorData(400, code, data, ...),
\* as Handler.ReplyRequestBodyValidationErrors does: Server.handleError
\* with the data, and no assignment to Handler.errorCode
RouteReplyErrorData(r) ==
    /\ hpc[r] = "handler" /\ Len(script[r]) < MaxReplies
    /\ rw' = [rw EXCEPT ![r] =
           Reply(@, 400, [error |-> "invalid request body",
                          code |-> "invalid_request_body",
                          data |-> "validation_errors"])]
    /\ script' = [script EXCEPT ![r] = Append(@, 400)]
    /\ UNCHANGED <<hideInternalErrors, hpc, hkind, pval, errorCode, rlog,
                   errlog, escaped, doneBefore>>
    /\ UNCHANGED <<nothttp>>

\* the route function returns, and the router with it
RouteReturn(r) ==
    /\ hpc[r] = "handler"
    /\ hpc' = [hpc EXCEPT ![r] = "logging"]
    /\ UNCHANGED <<hideInternalErrors, hkind, pval, rw, errorCode, rlog,
                   errlog, script, escaped, doneBefore>>
    /\ UNCHANGED <<nothttp>>

\* the route function panics with value v: the deferred functions of
\* ServeHTTP run
RoutePanic(r, v) ==
    /\ hpc[r] = "handler"
    /\ pval' = [pval EXCEPT ![r] = v]
    /\ hpc' = [hpc EXCEPT ![r] = "recover"]
    /\ UNCHANGED <<hideInternalErrors, hkind, rw, errorCode, rlog, errlog,
                   script, escaped, doneBefore>>
    /\ UNCHANGED <<nothttp>>

\* Recover_Rethrows: the panic is logged and raised again
Recover_Rethrows(r) ==
    /\ hpc[r] = "recover"
    /\ errlog' = [errlog EXCEPT ![r] =
           Append(@, <<"panic", handlePanic(pval[r])>>)]
    /\ escaped' = [escaped EXCEPT ![r] = TRUE]
    /\ hpc' = [hpc EXCEPT ![r] = "logging"]
    /\ UNCHANGED <<hideInternalErrors, hkind, pval, rw, errorCode, rlog,
                   script, doneBefore>>
    /\ UNCHANGED <<nothttp>>

\* Recover_LeaksDetail: the message of the reply is the one that is
\* logged
Recover_LeaksDetail(r) ==
    /\ hpc[r] = "recover"
    /\ errlog' = [errlog EXCEPT ![r] =
           @ \o <<<<"panic", handlePanic(pval[r])>>,
                  <<"internal error: panic", handlePanic(pval[r])>>>>]
    /\ errorCode' = [errorCode EXCEPT ![r] = "internal_error"]
    /\ rw' = [rw EXCEPT ![r] =
           handleError(@, 500, "internal_error",
                       <<"internal error: panic", handlePanic(pval[r])>>)]
    /\ hpc' = [hpc EXCEPT ![r] = "logging"]
    /\ UNCHANGED <<hideInternalErrors, hkind, pval, rlog, script, escaped,
                   doneBefore>>
    /\ UNCHANGED <<nothttp>>

\* the deferred recovery of ServeHTTP: handlePanic logs the message and
\* the stack, ReplyInternalError logs the message and replies 500 with
\* the code internal_error and a fixed message
Recover(r) ==
    /\ hpc[r] = "recover"
    /\ errlog' = [errlog EXCEPT ![r] =
           @ \o <<<<"panic", handlePanic(pval[r])>>,
                  <<"internal error: panic", handlePanic(pval[r])>>>>]
    /\ errorCode' = [errorCode EXCEPT ![r] = "internal_error"]
    /\ rw' = [rw EXCEPT ![r] =
           handleError(@, 500, "internal_error", "internal error")]
    /\ hpc' = [hpc EXCEPT ![r] = "logging"]
    /\ UNCHANGED <<hideInternalErrors, hkind, pval, rlog, script, escaped,
                   doneBefore>>
    /\ UNCHANGED <<nothttp>>

\* the deferred Handler.logRequest, the last thing ServeHTTP does
LogRequest(r) ==
    /\ hpc[r] = "logging"
    /\ rlog' = [rlog EXCEPT ![r] = Append(@, RequestLine(r))]
    /\ hpc' = [hpc EXCEPT ![r] = "done"]
    /\ UNCHANGED <<hideInternalErrors, hkind, pval, rw, errorCode, errlog,
                   script, escaped, doneBefore>>
    /\ UNCHANGED <<nothttp>>

InitHttp ==
    /\ InitDaemon /\ ~cfgInflux /\ ~cfgPg
    /\ InitClient
    /\ PgIdle /\ TlsIdle /\ CheckIdle /\ YIdle
    /\ \E hide \in BOOLEAN : HttpStart(hide)

NextHttp ==
    \E r \in Requests :
        \/ \E k \in Kinds : ServeHTTP(r, k)
        \/ HandleNotFound(r)
        \/ HandleMethodNotAllowed(r)
        \/ Route(r)
        \/ RouteReplyJSON(r)
        \/ RouteReplyError(r)
        \/ RouteReturn(r)
        \/ \E v \in PanicValues : RoutePanic(r, v)
        \/ Recover(r)
        \/ LogRequest(r)

SpecHttp == InitHttp /\ [][NextHttp]_vars

\* the pipeline with route functions that also reply with ReplyErrorData
NextReplies == NextHttp \/ \E r \in Requests : RouteReplyErrorData(r)

SpecReplies == InitHttp /\ [][NextReplies]_vars

\* ---------------------------------------------------------------------
\* The HTTP client: DialTLSContext and the public key pins
\* (dhttp/client.go)
\* ---------------------------------------------------------------------

\* the public keys a server certificate may carry
Keys == {"k1", "k2", "k3"}

\* the server sent no certificate
NoKey == ""

\* sha256.Sum256 of the marshalled SubjectPublicKeyInfo of a key, cut to
\* one byte, as two half bytes
Sum256(k) ==
    CASE k = "k1" -> <<10, 1>>
      [] k = "k2" -> <<2, 11>>
      [] OTHER -> <<1, 10>>

HexDigits == <<"0", "1", "2", "3", "4", "5", "6", "7", "8", "9",
               "a", "b", "c", "d", "e", "f">>

\* hex.EncodeToString: lower case digits
EncodeToString(bytes) == [i \in 1..Len(bytes) |-> HexDigits[bytes[i] + 1]]

\* the pins a configuration may list: the digest of k1, the same digest
\* written in upper case, and the digest of k2
PinValues == {<<"a", "1">>, <<"A", "1">>, <<"2", "b">>}

\* Client.checkTLSPublicKey_AnyName: the pins of all server names count
checkTLSPublicKey_AnyName(conn) ==
    LET pins == UNION {publicKeyPins[n] : n \in pinNames} IN
    IF ~cfgTLS THEN "nil"
    ELSE IF conn.serverName \notin pinNames
            \/ publicKeyPins[conn.serverName] = {} THEN "nil"
    ELSE IF conn.peerKey = NoKey THEN "noPeerCertificate"
    ELSE IF EncodeToString(Sum256(conn.peerKey)) \in pins THEN "nil"
    ELSE "invalidServerCertificate"

\* Client.checkTLSPublicKey: nil or the error; the keys Go's TLS accepts
\* can all be marshalled
checkTLSPublicKey(conn) ==
    LET pins == publicKeyPins[conn.serverName] IN
    IF ~cfgTLS THEN "nil"
    ELSE IF conn.serverName \notin pinNames \/ pins = {} THEN "nil"
    ELSE IF conn.peerKey = NoKey THEN "noPeerCertificate"
    ELSE IF EncodeToString(Sum256(conn.peerKey)) \in pins THEN "nil"
    ELSE "invalidServerCertificate"

\* DialTLSContext: dialer.DialContext to server name n, whose
\* certificate carries key k; its error is returned
DialContext(n, k, ok) ==
    /\ dialpc = "idle" /\ ndials < MaxDials
    /\ ndials' = ndials + 1
    /\ IF ok
       THEN /\ tlsConn' = [serverName |-> n, peerKey |-> k, open |-> TRUE]
            /\ dialpc' = "check"
            /\ dialResult' = dialResult
       ELSE /\ tlsConn' = tlsConn
            /\ dialpc' = "returned"
            /\ dialResult' = "dialError"
    /\ UNCHANGED <<cfgTLS, pinNames, publicKeyPins>>
    /\ UNCHANGED <<nottls>>

\* DialTLSContext: checkTLSPublicKey; on an error the connection is
\* closed and the error returned, otherwise the connection is returned
CheckPublicKey ==
    /\ dialpc = "check"
    /\ LET err == checkTLSPublicKey(tlsConn) IN
       IF err = "nil"
       THEN /\ dialResult' = "conn"
            /\ tlsConn' = tlsConn
       ELSE /\ dialResult' = err
            /\ tlsConn' = [tlsConn EXCEPT !.open = FALSE]
    /\ dialpc' = "returned"
    /\ UNCHANGED <<cfgTLS, pinNames, publicKeyPins, ndials>>
    /\ UNCHANGED <<nottls>>

\* the transport has the result; the next call may start
DialReturned ==
    /\ dialpc = "returned" /\ ndials < MaxDials
    /\ dialpc' = "idle"
    /\ tlsConn' = NoConn
    /\ dialResult' = "none"
    /\ UNCHANGED <<cfgTLS, pinNames, publicKeyPins, ndials>>
    /\ UNCHANGED <<nottls>>

\* NewClient: without TLS configuration, or with pins for some of the
\* server names
InitTls ==
    /\ InitDaemon /\ ~cfgInflux /\ ~cfgPg
    /\ InitClient
    /\ PgIdle /\ HttpIdle /\ CheckIdle /\ YIdle
    /\ \/ TlsIdle
       \/ \E names \in SUBSET ServerNames :
          \E pins \in [ServerNames -> SUBSET PinValues] :
              TlsStart(TRUE, names, pins)

NextTls ==
    \/ \E n \in ServerNames : \E k \in Keys \cup {NoKey} :
       \E ok \in BOOLEAN : DialContext(n, k, ok)
    \/ CheckPublicKey
    \/ DialReturned

SpecTls == InitTls /\ [][NextTls]_vars

\* ---------------------------------------------------------------------
\* The validation checker (check/check.go)
\* ---------------------------------------------------------------------

\* the tokens given to the checker: a string, an int or a djson.Pointer
StringToken(s) == [type |-> "string", str |-> s, int |-> 0, ptr |-> <<>>]
IntToken(i) == [type |-> "int", str |-> "", int |-> i, ptr |-> <<>>]
PointerToken(p) == [type |-> "pointer", str |-> "", int |-> 0, ptr |-> p]

Tokens == {StringToken("a"), IntToken(0), PointerToken(<<>>),
           PointerToken(<<"x", "y">>)}

\* the integers given to the integer checks
Ints == 0..2

\* the limits given to CheckIntMinMax: a minimum and a maximum, also with
\* the minimum above the maximum
Limits == {<<1, 1>>, <<2, 0>>}

\* strconv.Itoa of a one digit integer
Itoa(i) == <<"0", "1", "2", "3", "4", "5", "6", "7", "8", "9">>[i + 1]

\* pointerAppend: the pointer extended by the token
pointerAppend(p, token) ==
    CASE token.type = "string" -> Append(p, token.str)
      [] token.type = "int" -> Append(p, Itoa(token.int))
      [] OTHER -> p \o token.ptr

\* Checker.Push
Push(p, token) == pointerAppend(p, token)

\* Checker.Pop: c.Pointer[:len(c.Pointer)-1], for a pointer that is not
\* empty
Pop(p) == SubSeq(p, 1, Len(p) - 1)

\* Checker.AddError: a copy of the pointer extended by the token
AddError(errors, p, token, code) ==
    Append(errors, [pointer |-> pointerAppend(p, token), code |-> code])

\* Checker.Check: the value, and the errors after the call
Check(errors, p, token, v, code) ==
    [ret |-> v,
     errors |-> IF v THEN errors ELSE AddError(errors, p, token, code)]

\* Checker.CheckIntMin
CheckIntMin(errors, p, token, i, min) ==
    Check(errors, p, token, i >= min, "integer_too_small")

\* Checker.CheckIntMax
CheckIntMax(errors, p, token, i, max) ==
    Check(errors, p, token, i <= max, "integer_too_large")

\* Checker.CheckIntMinMax_ChecksBoth: the maximum is checked also after
\* the minimum failed
CheckIntMinMax_ChecksBoth(errors, p, token, i, min, max) ==
    LET r == CheckIntMin(errors, p, token, i, min)
        q == CheckIntMax(r.errors, p, token, i, max)
    IN [ret |-> r.ret /\ q.ret, errors |-> q.errors]

\* Checker.CheckIntMinMax
CheckIntMinMax(errors, p, token, i, min, max) ==
    LET r == CheckIntMin(errors, p, token, i, min) IN
    IF ~r.ret THEN r ELSE CheckIntMax(r.errors, p, token, i, max)

\* the checker can be called: no call has panicked, calls are left
CanCall == ~cpanic /\ nops < MaxOps

\* a check returned r
Checked(op, token, args, r) ==
    /\ lastOp' = [op |-> op, token |-> token, args |-> args]
    /\ ret' = r.ret
    /\ cErrors' = r.errors
    /\ nops' = nops + 1

\* Checker.WithChild: Push(token), Pop deferred, then fn() runs; the
\* loops of CheckObjectArray and CheckObjectMap run inside such a call
WithChildEnter(token) ==
    /\ CanCall /\ Len(frames) < MaxDepth
    /\ cPointer' = Push(cPointer, token)
    /\ frames' = Append(frames, [kind |-> "WithChild",
                                  before |-> cPointer,
                                  nbErrors |-> Len(cErrors)])
    /\ nops' = nops + 1
    /\ UNCHANGED <<cErrors, lastOp, ret, cpanic>>
    /\ UNCHANGED <<notcheck>>

\* Checker.CheckObject and CheckOptionalObject: a nil value is missing
\* unless optional; otherwise doCheckObject calls obj.Check inside
\* WithChild(token)
CheckObjectCall(token, isNil, optional) ==
    /\ CanCall
    /\ ~isNil => Len(frames) < MaxDepth
    /\ nops' = nops + 1
    /\ lastOp' = [op |-> IF optional THEN "CheckOptionalObject"
                          ELSE "CheckObject",
                  token |-> token, args |-> <<isNil>>]
    /\ IF isNil
       THEN /\ ret' = optional
            /\ cErrors' = Check(cErrors, cPointer, token, optional,
                                "missing_value").errors
            /\ UNCHANGED <<cPointer, frames>>
       ELSE /\ cPointer' = Push(cPointer, token)
            /\ frames' = Append(frames, [kind |-> "doCheckObject",
                                         before |-> cPointer,
                                         nbErrors |-> Len(cErrors)])
            /\ UNCHANGED <<ret, cErrors>>
    /\ UNCHANGED <<cpanic>>
    /\ UNCHANGED <<notcheck>>

\* fn() returned: the deferred Pop of WithChild; doCheckObject then
\* returns whether the number of errors is unchanged. Pop on an empty
\* pointer is a slice out of range, a panic
WithChildExit ==
    /\ ~cpanic /\ frames # <<>>
    /\ IF cPointer = <<>>
       THEN /\ cpanic' = TRUE
            /\ UNCHANGED <<cPointer, frames, ret>>
       ELSE /\ cpanic' = cpanic
            /\ cPointer' = Pop(cPointer)
            /\ frames' = SubSeq(frames, 1, Len(frames) - 1)
            /\ ret' = IF frames[Len(frames)].kind = "doCheckObject"
                      THEN Len(cErrors) = frames[Len(frames)].nbErrors
                      ELSE ret
    /\ UNCHANGED <<cErrors, lastOp, nops>>
    /\ UNCHANGED <<notcheck>>

\* a call of Checker.Check
CallCheck(token, v) ==
    /\ CanCall
    /\ Checked("Check", token, <<v>>,
               Check(cErrors, cPointer, token, v, "invalid_value"))
    /\ UNCHANGED <<cPointer, frames, cpanic>>
    /\ UNCHANGED <<notcheck>>

\* a call of Checker.CheckIntMin
CallCheckIntMin(token, i, min) ==
    /\ CanCall
    /\ Checked("CheckIntMin", token, <<i, min>>,
               CheckIntMin(cErrors, cPointer, token, i, min))
    /\ UNCHANGED <<cPointer, frames, cpanic>>
    /\ UNCHANGED <<notcheck>>

\* a call of Checker.CheckIntMax
CallCheckIntMax(token, i, max) ==
    /\ CanCall
    /\ Checked("CheckIntMax", token, <<i, max>>,
               CheckIntMax(cErrors, cPointer, token, i, max))
    /\ UNCHANGED <<cPointer, frames, cpanic>>
    /\ UNCHANGED <<notcheck>>

\* a call of Checker.CheckIntMinMax
CallCheckIntMinMax(token, i, min, max) ==
    /\ CanCall
    /\ Checked("CheckIntMinMax", token, <<i, min, max>>,
               CheckIntMinMax(cErrors, cPointer, token, i, min, max))
    /\ UNCHANGED <<cPointer, frames, cpanic>>
    /\ UNCHANGED <<notcheck>>

InitCheck ==
    /\ InitDaemon /\ ~cfgInflux /\ ~cfgPg
    /\ InitClient
    /\ PgIdle /\ HttpIdle /\ TlsIdle /\ YIdle
    /\ CheckIdle

NextCheck ==
    \/ \E token \in Tokens : WithChildEnter(token)
    \/ \E token \in Tokens : \E isNil, optional \in BOOLEAN :
          CheckObjectCall(token, isNil, optional)
    \/ WithChildExit
    \/ \E token \in Tokens : \E v \in BOOLEAN : CallCheck(token, v)
    \/ \E token \in Tokens : \E i \in Ints : CallCheckIntMin(token, i, 1)
    \/ \E token \in Tokens : \E i \in Ints : CallCheckIntMax(token, i, 1)
    \/ \E token \in Tokens : \E i \in Ints : \E l \in Limits :
          CallCheckIntMinMax(token, i, l[1], l[2])

SpecCheck == InitCheck /\ [][NextCheck]_vars

\* ---------------------------------------------------------------------
\* The JSON pointer (djson/pointer.go)
\* ---------------------------------------------------------------------

\* the characters of the modelled strings; a string is the sequence of
\* its characters
Chars == {"~", "/", "0", "1"}

\* the strings of at most n characters of the set cs
StringsOf(cs, n) == UNION {[1..k -> cs] : k \in 0..n}

\* the tokens of the modelled pointers
TokenStrings == StringsOf(Chars, MaxTokenLen)

\* the modelled pointers
Pointers == UNION {[1..k -> TokenStrings] : k \in 0..MaxTokens}

\* strings.HasPrefix
HasPrefix(s, prefix) ==
    Len(prefix) <= Len(s) /\ SubSeq(s, 1, Len(prefix)) = prefix

\* strings.Replacer.Replace for the pairs <<old, new>> given to
\* NewReplacer: the string is scanned once from the left, at each position
\* the first pair in argument order whose old string starts there is
\* applied, and what was written is not scanned again
RECURSIVE Replace(_, _)
Replace(pairs, s) ==
    IF s = <<>> THEN <<>>
    ELSE LET matching == {i \in 1..Len(pairs) : HasPrefix(s, pairs[i][1])}
         IN IF matching = {}
            THEN <<Head(s)>> \o Replace(pairs, Tail(s))
            ELSE LET i == CHOOSE k \in matching :
                              \A j \in matching : k <= j
                 IN pairs[i][2] \o
                    Replace(pairs,
                            SubSeq(s, Len(pairs[i][1]) + 1, Len(s)))

\* strings.NewReplacer("~", "~0", "/", "~1")
tokenEncoder == << <<<<"~">>, <<"~", "0">>>>, <<<<"/">>, <<"~", "1">>>> >>

\* strings.NewReplacer("~1", "/", "~0", "~")
tokenDecoder == << <<<<"~", "1">>, <<"/">>>>, <<<<"~", "0">>, <<"~">>>> >>

encodeToken(s) == Replace(tokenEncoder, s)

\* decodeToken_TwoPasses: "~0" is replaced in a first pass, "~1" in a
\* second one over the result
decodeToken_TwoPasses(s) ==
    Replace(<< <<<<"~", "1">>, <<"/">>>> >>,
            Replace(<< <<<<"~", "0">>, <<"~">>>> >>, s))

decodeToken(s) == Replace(tokenDecoder, s)

\* strings.Split(s, "/")
RECURSIVE Split(_)
Split(s) ==
    IF \A i \in 1..Len(s) : s[i] # "/" THEN <<s>>
    ELSE LET i == CHOOSE k \in 1..Len(s) :
                      s[k] = "/" /\ \A j \in 1..(k - 1) : s[j] # "/"
         IN <<SubSeq(s, 1, i - 1)>> \o Split(SubSeq(s, i + 1, Len(s)))

\* Pointer.Parse on a new Pointer: the error and the pointer afterwards
PointerParse(s) ==
    IF Len(s) = 0 THEN [err |-> "nil", p |-> <<>>]
    ELSE IF s[1] # "/" THEN [err |-> "invalid format", p |-> <<>>]
    ELSE LET parts == Split(Tail(s))
         IN [err |-> "nil",
             p |-> [i \in 1..Len(parts) |-> decodeToken(parts[i])]]

\* Pointer.String
RECURSIVE PointerString(_)
PointerString(p) ==
    IF p = <<>> THEN <<>>
    ELSE <<"/">> \o encodeToken(Head(p)) \o PointerString(Tail(p))

\* the caller renders the pointer: Pointer.String
CallString ==
    /\ jpc = "new"
    /\ rendered' = PointerString(jsonPointer)
    /\ jpc' = "rendered"
    /\ UNCHANGED <<jsonPointer, parsed>>
    /\ UNCHANGED <<notpointer>>

\* the caller parses the text: Pointer.Parse on a new Pointer
CallParse ==
    /\ jpc = "rendered"
    /\ parsed' = PointerParse(rendered)
    /\ jpc' = "parsed"
    /\ UNCHANGED <<jsonPointer, rendered>>
    /\ UNCHANGED <<notpointer>>

InitPointer ==
    /\ InitDaemon /\ ~cfgInflux /\ ~cfgPg
    /\ InitClient
    /\ PgIdle /\ HttpIdle /\ TlsIdle /\ CheckIdle
    /\ PkcsIdle /\ LineIdle /\ OwnerIdle /\ CfgIdle
    /\ TagsIdle
    /\ jsonPointer \in Pointers
    /\ rendered = <<>>
    /\ parsed = NoParse
    /\ jpc = "new"

NextPointer == CallString \/ CallParse

SpecPointer == InitPointer /\ [][NextPointer]_vars

\* ---------------------------------------------------------------------
\* The PKCS#5 padding (dcrypto/pkcs5.go)
\* ---------------------------------------------------------------------

\* the largest value of a byte
MaxByte == 255

\* the values of the bytes of the data given by the caller
DataBytes == 0..(MaxBlock + 1)

\* the data given by the caller
Datas == UNION {[1..k -> DataBytes] : k \in 0..MaxData}

\* the block sizes given by the caller: the small ones, and the two at
\* the limit of what a byte can hold
BlockSizes == (1..MaxBlock) \cup {MaxByte, MaxByte + 1}

\* the conversion byte(n) of an int
Byte(n) == n % (MaxByte + 1)

\* PadPKCS5_NoFullBlock: data whose length is a multiple of the block size
\* is returned as it is
PadPKCS5_NoFullBlock(data, b) ==
    LET paddingSize == (b - (Len(data) % b)) % b
    IN data \o [i \in 1..paddingSize |-> Byte(paddingSize)]

\* PadPKCS5
PadPKCS5(data, b) ==
    LET paddingSize == b - (Len(data) % b)
    IN data \o [i \in 1..paddingSize |-> Byte(paddingSize)]

\* UnpadPKCS5: the data and the error returned; the index expression
\* data[dataSize-1] of an empty slice is a run time panic
UnpadPKCS5(data, b) ==
    LET dataSize == Len(data) IN
    IF dataSize % b # 0 THEN [data |-> <<>>, err |-> "truncated data"]
    ELSE IF dataSize = 0 THEN [data |-> <<>>, err |-> "panic"]
    ELSE LET paddingSize == data[dataSize] IN
         IF paddingSize > dataSize \/ paddingSize > b
         THEN [data |-> <<>>, err |-> "invalid padding size"]
         ELSE [data |-> SubSeq(data, 1, dataSize - paddingSize),
               err |-> "nil"]

\* the caller pads its data: PadPKCS5(data, blockSize)
CallPad ==
    /\ kpc = "new"
    /\ padded' = PadPKCS5(kdata, blockSize)
    /\ kpc' = "padded"
    /\ UNCHANGED <<kdata, blockSize, unpadded>>
    /\ UNCHANGED <<notpkcs>>

\* the caller unpads what PadPKCS5 returned
CallUnpad ==
    /\ kpc = "padded"
    /\ unpadded' = UnpadPKCS5(padded, blockSize)
    /\ kpc' = "unpadded"
    /\ UNCHANGED <<kdata, blockSize, padded>>
    /\ UNCHANGED <<notpkcs>>

\* the caller unpads data it received: UnpadPKCS5(data, blockSize)
CallUnpadInput ==
    /\ kpc = "new"
    /\ unpadded' = UnpadPKCS5(kdata, blockSize)
    /\ kpc' = "unpaddedInput"
    /\ UNCHANGED <<kdata, blockSize, padded>>
    /\ UNCHANGED <<notpkcs>>

InitPkcs ==
    /\ InitDaemon /\ ~cfgInflux /\ ~cfgPg
    /\ InitClient
    /\ PgIdle /\ HttpIdle /\ TlsIdle /\ CheckIdle
    /\ PointerIdle /\ LineIdle /\ OwnerIdle /\ CfgIdle
    /\ TagsIdle
    /\ kdata \in Datas
    /\ blockSize \in BlockSizes
    /\ padded = <<>>
    /\ unpadded = NoUnpad
    /\ kpc = "new"

NextPkcs == CallPad \/ CallUnpad \/ CallUnpadInput

SpecPkcs == InitPkcs /\ [][NextPkcs]_vars

\* ---------------------------------------------------------------------
\* The line protocol (influx/line_protocol.go)
\* ---------------------------------------------------------------------

\* the measurement of the modelled points: it holds a space
Measurement == <<"m", " ">>

\* the keys of the tags of the modelled points
TagKeys == {<<"a">>, <<"a", ",">>, <<"B">>}

\* the value of every tag of the modelled points
TagValue == <<"v", "=">>

\* the keys of the fields of the modelled points
FieldKeys == {<<"x">>, <<"X">>}

\* the value of a field: an int, a string or a bool
IntValue(i) == [type |-> "int", int |-> i, str |-> <<>>]
StringValue(s) == [type |-> "string", int |-> 0, str |-> s]

\* the value the modelled points give to a field
FieldValueOf(key) ==
    IF key = <<"x">> THEN IntValue(1) ELSE StringValue(<<"s", "\"">>)

\* Point.Timestamp: nil, or a time of ns nanoseconds
NoTimestamp == [set |-> FALSE, ns |-> 0]
Timestamp(ns) == [set |-> TRUE, ns |-> ns]

\* the modelled points
LinePoints ==
    {[measurement |-> Measurement,
      tags |-> [k \in ks |-> TagValue],
      fields |-> [k \in fs |-> FieldValueOf(k)],
      timestamp |-> t] :
        ks \in SUBSET TagKeys, fs \in SUBSET FieldKeys,
        t \in {NoTimestamp, Timestamp(7)}}

\* the orders in which a range loop can visit the keys of a map
Orders(keys) ==
    {o \in [1..Cardinality(keys) -> keys] :
        \A i, j \in 1..Cardinality(keys) : i # j => o[i] # o[j]}

\* the byte of a character of a key
Code(c) ==
    CASE c = "," -> 44
      [] c = "B" -> 66
      [] c = "X" -> 88
      [] c = "a" -> 97
      [] OTHER -> 120

\* a < b for two strings, as bytes.Compare orders them
RECURSIVE StringLess(_, _)
StringLess(a, b) ==
    IF b = <<>> THEN FALSE
    ELSE IF a = <<>> THEN TRUE
    ELSE IF Code(Head(a)) # Code(Head(b))
         THEN Code(Head(a)) < Code(Head(b))
    ELSE StringLess(Tail(a), Tail(b))

\* the sorted slice with one more key in its place
RECURSIVE InsertString(_, _)
InsertString(key, sorted) ==
    IF sorted = <<>> THEN <<key>>
    ELSE IF StringLess(key, Head(sorted)) THEN <<key>> \o sorted
    ELSE <<Head(sorted)>> \o InsertString(key, Tail(sorted))

\* sort.Strings
RECURSIVE SortStrings(_)
SortStrings(keys) ==
    IF keys = <<>> THEN <<>>
    ELSE InsertString(Head(keys), SortStrings(Tail(keys)))

\* strings.NewReplacer(`,`, `\,`, ` `, `\ `)
measurementReplacer ==
    << <<<<",">>, <<"\\", ",">>>>, <<<<" ">>, <<"\\", " ">>>> >>

\* strings.NewReplacer(`,`, `\,`, `=`, `\=`, ` `, `\ `)
keyReplacer ==
    << <<<<",">>, <<"\\", ",">>>>, <<<<"=">>, <<"\\", "=">>>>,
       <<<<" ">>, <<"\\", " ">>>> >>

\* strings.NewReplacer(`"`, `\"`)
stringFieldReplacer == << <<<<"\"">>, <<"\\", "\"">>>> >>

encodeMeasurement(measurement) == Replace(measurementReplacer, measurement)

encodeKey(key) == Replace(keyReplacer, key)

\* encodeFieldValue, for an int and for a string
encodeFieldValue(value) ==
    IF value.type = "int" THEN <<Itoa(value.int), "i">>
    ELSE <<"\"">> \o Replace(stringFieldReplacer, value.str) \o <<"\"">>

\* encodeTimestamp
encodeTimestamp(timestamp) == <<Itoa(timestamp.ns)>>

\* the tags of the keys, in the order of the slice
RECURSIVE writeTags(_, _)
writeTags(tags, keys) ==
    IF keys = <<>> THEN <<>>
    ELSE <<",">> \o encodeKey(Head(keys)) \o <<"=">> \o
         encodeKey(tags[Head(keys)]) \o writeTags(tags, Tail(keys))

\* encodeTags_Unsorted: the keys are written in the order of the range
\* loop
encodeTags_Unsorted(tags, order) == writeTags(tags, order)

\* encodeTags: order is the order in which the range loop visits the map
encodeTags(tags, order) == writeTags(tags, SortStrings(order))

\* the fields of the keys, in the order of the slice
RECURSIVE writeFields(_, _, _)
writeFields(fields, keys, i) ==
    IF keys = <<>> THEN <<>>
    ELSE (IF i > 0 THEN <<",">> ELSE <<>>) \o encodeKey(Head(keys)) \o
         <<"=">> \o encodeFieldValue(fields[Head(keys)]) \o
         writeFields(fields, Tail(keys), i + 1)

\* encodeFields
encodeFields(fields, order) == writeFields(fields, SortStrings(order), 0)

\* EncodePoint: what is written to the buffer
EncodePoint(p, tagOrder, fieldOrder) ==
    encodeMeasurement(p.measurement) \o
    (IF Cardinality(DOMAIN p.tags) > 0
     THEN encodeTags(p.tags, tagOrder) ELSE <<>>) \o
    <<" ">> \o
    encodeFields(p.fields, fieldOrder) \o
    (IF p.timestamp.set
     THEN <<" ">> \o encodeTimestamp(p.timestamp) ELSE <<>>)

\* EncodePoints(ps, buf) is called with an empty buffer
CallEncodePoints ==
    /\ lpc = "new"
    /\ lpc' = "range"
    /\ UNCHANGED <<lpoints, lbuf, lidx>>
    /\ UNCHANGED <<notline>>

\* one turn of the range loop: EncodePoint(p, buf), then the newline
EncodeNext(tagOrder, fieldOrder) ==
    /\ lpc = "range" /\ lidx <= Len(lpoints)
    /\ lbuf' = lbuf \o EncodePoint(lpoints[lidx], tagOrder, fieldOrder) \o
                    <<"\n">>
    /\ lidx' = lidx + 1
    /\ UNCHANGED <<lpoints, lpc>>
    /\ UNCHANGED <<notline>>

\* the range loop is over: EncodePoints returns
EncodePointsReturn ==
    /\ lpc = "range" /\ lidx > Len(lpoints)
    /\ lpc' = "done"
    /\ UNCHANGED <<lpoints, lbuf, lidx>>
    /\ UNCHANGED <<notline>>

InitLine ==
    /\ InitDaemon /\ ~cfgInflux /\ ~cfgPg
    /\ InitClient
    /\ PgIdle /\ HttpIdle /\ TlsIdle /\ CheckIdle
    /\ PointerIdle /\ PkcsIdle /\ OwnerIdle /\ CfgIdle
    /\ TagsIdle
    /\ lpoints \in UNION {[1..k -> LinePoints] : k \in 0..MaxLinePoints}
    /\ lbuf = <<>>
    /\ lidx = 1
    /\ lpc = "new"

NextLine ==
    \/ CallEncodePoints
    \/ /\ lpc = "range" /\ lidx <= Len(lpoints)
       /\ \E tagOrder \in Orders(DOMAIN lpoints[lidx].tags) :
             \E fieldOrder \in Orders(DOMAIN lpoints[lidx].fields) :
                EncodeNext(tagOrder, fieldOrder)
    \/ EncodePointsReturn

SpecLine == InitLine /\ [][NextLine]_vars

\* ---------------------------------------------------------------------
\* A server and its owner: Server.Start and Server.Stop (dhttp/server.go)
\* ---------------------------------------------------------------------

\* ServerStart_SpawnsAnyway: the goroutines are spawned also when
\* net.Listen failed
ServerStart_SpawnsAnyway(s, ok) ==
    /\ opc[s] = "new"
    /\ listener' = [listener EXCEPT ![s] = ok]
    /\ sret' = [sret EXCEPT ![s] = IF ok THEN "nil" ELSE "error"]
    /\ opc' = [opc EXCEPT ![s] = IF ok THEN "started" ELSE "startFailed"]
    /\ serve' = [serve EXCEPT ![s] = "serving"]
    /\ smain' = [smain EXCEPT ![s] = "select"]
    /\ UNCHANGED <<dpc, initIdx, cfgInflux, cfgPg, exitCode, derr, dclosed,
                   sigChan, fpc, dlogged, hist, sstop, serrclosed, sshut,
                   slogged, sraised, stopping>>
    /\ UNCHANGED <<notowner>>

\* Server.Start: net.Listen binds the address (ok) or fails. On failure
\* the error is returned at once, before any goroutine is created; else
\* the serving goroutine and Server.main are spawned and nil is returned
ServerStart(s, ok) ==
    /\ opc[s] = "new"
    /\ listener' = [listener EXCEPT ![s] = ok]
    /\ sret' = [sret EXCEPT ![s] = IF ok THEN "nil" ELSE "error"]
    /\ opc' = [opc EXCEPT ![s] = IF ok THEN "started" ELSE "startFailed"]
    /\ serve' = [serve EXCEPT ![s] = IF ok THEN "serving" ELSE serve[s]]
    /\ smain' = [smain EXCEPT ![s] = IF ok THEN "select" ELSE smain[s]]
    /\ UNCHANGED <<dpc, initIdx, cfgInflux, cfgPg, exitCode, derr, dclosed,
                   sigChan, fpc, dlogged, hist, sstop, serrclosed, sshut,
                   slogged, sraised, stopping>>
    /\ UNCHANGED <<notowner>>

\* Server.Stop called by the owner after Start returned, whatever it
\* returned: close(s.stopChan)
ServerStop(s) ==
    /\ opc[s] \in {"started", "startFailed"}
    /\ sstop' = [sstop EXCEPT ![s] = TRUE]
    /\ opc' = [opc EXCEPT ![s] = "stopping"]
    /\ UNCHANGED <<dpc, initIdx, cfgInflux, cfgPg, exitCode, derr, dclosed,
                   sigChan, fpc, dlogged, hist, serve, smain, serrclosed,
                   sshut, slogged, sraised, stopping, sret, listener>>
    /\ UNCHANGED <<notowner>>

\* ServerStopReturn_NoWait: Stop ends with s.wg.Done() in place of
\* s.wg.Wait(), as the early variant of the file does (server.go 389-392),
\* and returns while Server.main may still run
ServerStopReturn_NoWait(s) ==
    /\ opc[s] = "stopping"
    /\ opc' = [opc EXCEPT ![s] = "stopped"]
    /\ UNCHANGED <<dpc, initIdx, cfgInflux, cfgPg, exitCode, derr, dclosed,
                   sigChan, fpc, dlogged, hist, serve, smain, sstop,
                   serrclosed, sshut, slogged, sraised, stopping, sret,
                   listener>>
    /\ UNCHANGED <<notowner>>

\* Server.Stop, s.wg.Wait(): returns when the counter is zero, that is
\* when Server.main was never spawned or is done
ServerStopReturn(s) ==
    /\ opc[s] = "stopping"
    /\ smain[s] \in {"none", "done"}
    /\ opc' = [opc EXCEPT ![s] = "stopped"]
    /\ UNCHANGED <<dpc, initIdx, cfgInflux, cfgPg, exitCode, derr, dclosed,
                   sigChan, fpc, dlogged, hist, serve, smain, sstop,
                   serrclosed, sshut, slogged, sraised, stopping, sret,
                   listener>>
    /\ UNCHANGED <<notowner>>

InitServer ==
    /\ InitDaemon /\ ~cfgInflux /\ ~cfgPg
    /\ InitClient
    /\ PgIdle /\ HttpIdle /\ TlsIdle /\ CheckIdle
    /\ PointerIdle /\ PkcsIdle /\ LineIdle /\ CfgIdle
    /\ OwnerIdle
    /\ TagsIdle

NextServer ==
    \/ \E s \in Servers : \E ok \in BOOLEAN : ServerStart(s, ok)
    \/ \E s \in Servers : ServerStop(s)
    \/ \E s \in Servers : ServerStopReturn(s)
    \/ \E s \in Servers : ServeFails(s)
    \/ \E s \in Servers : ServeClosed(s)
    \/ \E s \in Servers : ServeSendError(s)
    \/ \E s \in Servers : MainStop(s)

SpecServer == InitServer /\ [][NextServer]_vars

\* ---------------------------------------------------------------------
\* The daemon configuration and the HTTP servers and clients made of it
\* (daemon/daemon.go)
\* ---------------------------------------------------------------------

\* the names given to servers and clients: the name initHTTPClients gives
\* to the client of the metrics, the name initHTTPServers gives to the
\* API server, and another one
Names == {"influx", "daemon-api", "other"}

\* the configurations given to AddHTTPServer and AddHTTPClient
CfgValues == {"cfg1", "cfg2"}

\* influx.HTTPClientCfg(d.Cfg.Influx)
InfluxHTTPClientCfg == "influxCfg"

\* the ServerCfg initHTTPServers makes for the API server
APIServerCfg == "apiCfg"

\* m[name] = v
Put(m, name, v) ==
    [n \in DOMAIN m \cup {name} |-> IF n = name THEN v ELSE m[n]]

\* an insertion and how it ended
Insertion(op, name, outcome) ==
    [op |-> op, name |-> name, outcome |-> outcome]

\* a client of d.HTTPClients: who asked for it, and its configuration
HTTPClient(origin, c) == [origin |-> origin, cfg |-> c]

\* the clients of the configuration that the range loop of
\* initHTTPClients has not visited yet
Unvisited ==
    {n \in DOMAIN cfgHTTPClients :
        ~(n \in DOMAIN dHTTPClients /\ dHTTPClients[n].origin = "cfg")}

\* DaemonCfg.AddHTTPServer, called while Service.DaemonCfg builds the
\* configuration: panic when the name is found, else the entry is set
AddHTTPServer(name, c) ==
    /\ gpc = "DaemonCfg" /\ nadds < MaxAdds
    /\ nadds' = nadds + 1
    /\ IF name \in DOMAIN cfgHTTPServers
       THEN /\ gresult' = Insertion("AddHTTPServer", name, "panic")
            /\ gpc' = "panicked"
            /\ UNCHANGED cfgHTTPServers
       ELSE /\ gresult' = Insertion("AddHTTPServer", name, "ok")
            /\ cfgHTTPServers' = Put(cfgHTTPServers, name, c)
            /\ UNCHANGED gpc
    /\ UNCHANGED <<dpc, initIdx, cfgInflux, cfgPg, exitCode, derr, dclosed,
                   sigChan, fpc, dlogged, hist, serve, smain, sstop,
                   serrclosed, sshut, slogged, sraised, stopping, cfgAPI,
                   cfgHTTPClients, dHTTPServers, dHTTPClients>>
    /\ UNCHANGED <<notcfg>>

\* DaemonCfg.AddHTTPClient: panic when the name is found, else the entry
\* is set
AddHTTPClient(name, c) ==
    /\ gpc = "DaemonCfg" /\ nadds < MaxAdds
    /\ nadds' = nadds + 1
    /\ IF name \in DOMAIN cfgHTTPClients
       THEN /\ gresult' = Insertion("AddHTTPClient", name, "panic")
            /\ gpc' = "panicked"
            /\ UNCHANGED cfgHTTPClients
       ELSE /\ gresult' = Insertion("AddHTTPClient", name, "ok")
            /\ cfgHTTPClients' = Put(cfgHTTPClients, name, c)
            /\ UNCHANGED gpc
    /\ UNCHANGED <<dpc, initIdx, cfgInflux, cfgPg, exitCode, derr, dclosed,
                   sigChan, fpc, dlogged, hist, serve, smain, sstop,
                   serrclosed, sshut, slogged, sraised, stopping, cfgAPI,
                   cfgHTTPServers, dHTTPServers, dHTTPClients>>
    /\ UNCHANGED <<notcfg>>

\* Service.DaemonCfg returns the configuration; Daemon.init comes to
\* initHTTPServers
DaemonCfgReturn ==
    /\ gpc = "DaemonCfg"
    /\ gpc' = "initHTTPServers"
    /\ UNCHANGED <<dpc, initIdx, cfgInflux, cfgPg, exitCode, derr, dclosed,
                   sigChan, fpc, dlogged, hist, serve, smain, sstop,
                   serrclosed, sshut, slogged, sraised, stopping, cfgAPI,
                   cfgHTTPServers, cfgHTTPClients, dHTTPServers,
                   dHTTPClients, gresult, nadds>>
    /\ UNCHANGED <<notcfg>>

\* Daemon.initHTTPServers: AddHTTPServer("daemon-api", ...) when the API
\* is configured, then one server for each entry of the configuration
\* (NewServer returns no error)
InitHTTPServers ==
    /\ gpc = "initHTTPServers"
    /\ IF cfgAPI /\ "daemon-api" \in DOMAIN cfgHTTPServers
       THEN /\ gresult' = Insertion("AddHTTPServer", "daemon-api", "panic")
            /\ gpc' = "panicked"
            /\ UNCHANGED <<cfgHTTPServers, dHTTPServers>>
       ELSE /\ cfgHTTPServers' =
                  IF cfgAPI
                  THEN Put(cfgHTTPServers, "daemon-api", APIServerCfg)
                  ELSE cfgHTTPServers
            /\ gresult' =
                  IF cfgAPI
                  THEN Insertion("AddHTTPServer", "daemon-api", "ok")
                  ELSE gresult
            /\ dHTTPServers' = cfgHTTPServers'
            /\ gpc' = "initHTTPClients"
    /\ UNCHANGED <<dpc, initIdx, cfgInflux, cfgPg, exitCode, derr, dclosed,
                   sigChan, fpc, dlogged, hist, serve, smain, sstop,
                   serrclosed, sshut, slogged, sraised, stopping, cfgAPI,
                   cfgHTTPClients, dHTTPClients, nadds>>
    /\ UNCHANGED <<notcfg>>

\* Daemon.initHTTPClients, before the range loop: the client "influx" when
\* the metrics are configured; ok is whether NewClient succeeds
InitHTTPClientsBegin(ok) ==
    /\ gpc = "initHTTPClients"
    /\ IF ~cfgInflux
       THEN gpc' = "range" /\ UNCHANGED <<gresult, dHTTPClients>>
       ELSE IF ~ok
       THEN /\ gpc' = "failed"
            /\ gresult' = Insertion("initHTTPClient", "influx", "error")
            /\ UNCHANGED dHTTPClients
       ELSE /\ gpc' = "range"
            /\ gresult' = Insertion("initHTTPClient", "influx", "ok")
            /\ dHTTPClients' =
                  Put(dHTTPClients, "influx",
                      HTTPClient("influx", InfluxHTTPClientCfg))
    /\ UNCHANGED <<dpc, initIdx, cfgInflux, cfgPg, exitCode, derr, dclosed,
                   sigChan, fpc, dlogged, hist, serve, smain, sstop,
                   serrclosed, sshut, slogged, sraised, stopping, cfgAPI,
                   cfgHTTPServers, cfgHTTPClients, dHTTPServers, nadds>>
    /\ UNCHANGED <<notcfg>>

\* InitHTTPClient_Replaces: a client whose name is found takes the place
\* of the one that is there
InitHTTPClient_Replaces(name, ok) ==
    /\ gpc = "range" /\ name \in Unvisited
    /\ IF ~ok
       THEN /\ gpc' = "failed"
            /\ gresult' = Insertion("initHTTPClient", name, "error")
            /\ UNCHANGED dHTTPClients
       ELSE /\ gresult' = Insertion("initHTTPClient", name, "ok")
            /\ dHTTPClients' =
                  Put(dHTTPClients, name,
                      HTTPClient("cfg", cfgHTTPClients[name]))
            /\ UNCHANGED gpc
    /\ UNCHANGED <<dpc, initIdx, cfgInflux, cfgPg, exitCode, derr, dclosed,
                   sigChan, fpc, dlogged, hist, serve, smain, sstop,
                   serrclosed, sshut, slogged, sraised, stopping, cfgAPI,
                   cfgHTTPServers, cfgHTTPClients, dHTTPServers, nadds>>
    /\ UNCHANGED <<notcfg>>

\* one turn of the range loop of initHTTPClients: initHTTPClient(name,
\* cfg) returns an error when NewClient fails or when the name is found in
\* d.HTTPClients, and initHTTPClients returns it; else the client is set
InitHTTPClient(name, ok) ==
    /\ gpc = "range" /\ name \in Unvisited
    /\ IF ~ok \/ name \in DOMAIN dHTTPClients
       THEN /\ gpc' = "failed"
            /\ gresult' = Insertion("initHTTPClient", name, "error")
            /\ UNCHANGED dHTTPClients
       ELSE /\ gresult' = Insertion("initHTTPClient", name, "ok")
            /\ dHTTPClients' =
                  Put(dHTTPClients, name,
                      HTTPClient("cfg", cfgHTTPClients[name]))
            /\ UNCHANGED gpc
    /\ UNCHANGED <<dpc, initIdx, cfgInflux, cfgPg, exitCode, derr, dclosed,
                   sigChan, fpc, dlogged, hist, serve, smain, sstop,
                   serrclosed, sshut, slogged, sraised, stopping, cfgAPI,
                   cfgHTTPServers, cfgHTTPClients, dHTTPServers, nadds>>
    /\ UNCHANGED <<notcfg>>

\* the range loop is over: initHTTPClients returns nil
InitHTTPClientsReturn ==
    /\ gpc = "range" /\ Unvisited = {}
    /\ gpc' = "done"
    /\ UNCHANGED <<dpc, initIdx, cfgInflux, cfgPg, exitCode, derr, dclosed,
                   sigChan, fpc, dlogged, hist, serve, smain, sstop,
                   serrclosed, sshut, slogged, sraised, stopping, cfgAPI,
                   cfgHTTPServers, cfgHTTPClients, dHTTPServers,
                   dHTTPClients, gresult, nadds>>
    /\ UNCHANGED <<notcfg>>

InitCfg ==
    /\ InitDaemon /\ ~cfgPg
    /\ InitClient
    /\ PgIdle /\ HttpIdle /\ TlsIdle /\ CheckIdle
    /\ PointerIdle /\ PkcsIdle /\ LineIdle /\ OwnerIdle
    /\ TagsIdle
    /\ \E api \in BOOLEAN : CfgStart(api)

NextCfg ==
    \/ \E name \in Names : \E c \in CfgValues : AddHTTPServer(name, c)
    \/ \E name \in Names : \E c \in CfgValues : AddHTTPClient(name, c)
    \/ DaemonCfgReturn
    \/ InitHTTPServers
    \/ \E ok \in BOOLEAN : InitHTTPClientsBegin(ok)
    \/ \E name \in Names : \E ok \in BOOLEAN : InitHTTPClient(name, ok)
    \/ InitHTTPClientsReturn

SpecCfg == InitCfg /\ [][NextCfg]_vars

\* ---------------------------------------------------------------------
\* The tags of a point: NewClient and Client.finalizePoint
\* (influx/client.go)
\* ---------------------------------------------------------------------

\* the keys and the values of the modelled tags; "" is the empty string
TagNames == {"host", "k"}
TagValues == {"", "h", "v"}

\* the maps from some tag names to values
TagMaps == UNION {[d -> TagValues] : d \in SUBSET TagNames}

\* the map m after m[key] = value
SetTag(m, key, value) ==
    [k \in DOMAIN m \cup {key} |-> IF k = key THEN value ELSE m[k]]

\* a range loop over the map from that copies its entries into the map
\* into, all of them or only those with a value that is not empty; the
\* keys of a map are distinct, so the order of the iteration does not
\* show in the result
RECURSIVE CopyTags(_, _, _, _)
CopyTags(into, from, todo, all) ==
    IF todo = {} THEN into
    ELSE LET key == CHOOSE k \in todo : TRUE
         IN CopyTags(IF all \/ from[key] # ""
                       THEN SetTag(into, key, from[key]) ELSE into,
                     from, todo \ {key}, all)

\* NewClient: tags["host"] = cfg.Hostname when it is not empty, then
\* every entry of cfg.Tags
NewClientTags(host, tags) ==
    LET start == IF host # "" THEN SetTag(NoTags, "host", host)
                              ELSE NoTags
    IN CopyTags(start, tags, DOMAIN tags, TRUE)

\* finalizePoint_BaseWins: the base tags are copied after the tags of
\* the point
finalizePoint_BaseWins(base, own) ==
    LET first == CopyTags(NoTags, own, DOMAIN own, FALSE)
    IN CopyTags(first, base, DOMAIN base, FALSE)

\* Client.finalizePoint: a new map, the entries of c.tags with a value
\* that is not empty, then those of point.Tags
finalizePoint(base, own) ==
    LET first == CopyTags(NoTags, base, DOMAIN base, FALSE)
    IN CopyTags(first, own, DOMAIN own, FALSE)

\* NewClient builds the base tags of the client
CallNewClient ==
    /\ mpc = "cfg"
    /\ ctags' = NewClientTags(hostname, cfgTags)
    /\ mpc' = "new"
    /\ UNCHANGED <<hostname, cfgTags, ptags, ftags>>
    /\ UNCHANGED <<nottags>>

\* the worker receives a point and finalizes it
CallFinalizePoint ==
    /\ mpc = "new"
    /\ ftags' = finalizePoint(ctags, ptags)
    /\ mpc' = "finalized"
    /\ UNCHANGED <<hostname, cfgTags, ctags, ptags>>
    /\ UNCHANGED <<nottags>>

InitTags ==
    /\ InitDaemon /\ ~cfgInflux /\ ~cfgPg
    /\ InitClient
    /\ PgIdle /\ HttpIdle /\ TlsIdle /\ CheckIdle
    /\ PointerIdle /\ PkcsIdle /\ LineIdle /\ OwnerIdle /\ CfgIdle
    /\ hostname \in {"", "h"}
    /\ cfgTags \in TagMaps
    /\ ctags = NoTags
    /\ ptags \in TagMaps
    /\ ftags = NoTags
    /\ mpc = "cfg"

NextTags == CallNewClient \/ CallFinalizePoint

SpecTags == InitTags /\ [][NextTags]_vars

\* ---------------------------------------------------------------------
\* Helpers of the properties
\* ---------------------------------------------------------------------

Range(seq) == {seq[i] : i \in 1..Len(seq)}

IsPrefix(a, b) == Len(a) <= Len(b) /\ SubSeq(b, 1, Len(a)) = a

Count(x, seq) == Cardinality({i \in 1..Len(seq) : seq[i] = x})

\* the points of sender s in seq, in the order of seq
PointsOf(s, seq) == SelectSeq(seq, LAMBDA x : x[1] = s)

\* the creation numbers of the points in seq increase
Increasing(seq) ==
    \A i, j \in 1..Len(seq) : i < j => seq[i][2] < seq[j][2]

Ended == exitCode # -1

FailedOutcomes == {"error", "status"}

\* ---------------------------------------------------------------------
\* Properties of the supervisor (checked under Spec / SpecFair)
\* ---------------------------------------------------------------------

C2_FatalAlwaysExits1 ==
    "fatalInWait" \in hist =>
        /\ dpc = "wait"
        /\ exitCode \in {-1, 1}
        /\ exitCode = 1 => dlogged # {}

C2_Safe ==
    "fatalInWait" \in hist =>
        \/ dpc = "wait" /\ exitCode = -1
        \/ exitCode = 1 /\ dlogged # {}
        \/ "signalTaken" \in hist

\* C2, amended: once a component has called fatal while the supervisor
\* was in wait, the supervisor eventually leaves the select, and it does so
\* either by receiving the error, logging it and exiting with status 1, or
\* by taking a signal that is pending at the same select (the error is
\* then left unread and the daemon goes on to stop).
C2_FatalOrSignal ==
    /\ []C2_Safe
    /\ ("fatalInWait" \in hist) ~> (dpc # "wait" \/ Ended)

\* fatal was called during wait, the error was logged, the process
\* exited with status 1
C2_Witness ==
    /\ "fatalInWait" \in hist
    /\ exitCode = 1
    /\ dlogged # {}
    /\ "signalTaken" \notin hist

\* C3, as stated: a fatal serve error that has left the serving goroutine
\* is in the daemon's error channel or has been observed by the supervisor.
C3_ServeErrorReachesDaemon ==
    \A s \in Servers :
        (sraised[s] /\ serve[s] = "done") =>
            (s \in Range(derr) \/ s \in dlogged)

\* C3, amended: a fatal serve error is sent on the server's own error
\* channel; it leaves the serving goroutine only by being received by
\* Server.main, which logs it and returns.  It never enters the daemon's
\* error channel and the supervisor never observes it.
C3_ServeErrorStaysInServer ==
    \A s \in Servers :
        /\ (sraised[s] /\ serve[s] = "done") =>
               (slogged[s] /\ smain[s] = "done")
        /\ slogged[s] => sraised[s]
        /\ s \notin Range(derr)
        /\ s \notin dlogged

\* a serve error was logged by Server.main while the supervisor waits
C3_Witness ==
    /\ dpc = "wait" /\ exitCode = -1
    /\ \E s \in Servers : sraised[s] /\ serve[s] = "done" /\ slogged[s]

\* ---------------------------------------------------------------------
\* Properties of the metrics client (checked under SpecInflux /
\* SpecInfluxFair)
\* ---------------------------------------------------------------------

\* a call that returns without having handed its points to the worker
\* changes nothing in the worker: the points are dropped
C4_Dropped ==
    \A s \in Senders :
        (ppc[s] = "call" /\ ppc'[s] = Returned(s) /\ accepted' = accepted)
            => /\ istop
               /\ UNCHANGED <<points, inflight, shipped, wpc>>

\* C4: once the stop channel is closed no call of EnqueuePoints stays
\* blocked: a sender inside the select leaves it, whether the worker is
\* receiving, flushing or has exited (the process being alive); the points
\* of a call that did not hand them to the worker are dropped.
C4_EnqueueNeverBlocksAfterStop ==
    /\ \A s \in Senders :
          (istop /\ ppc[s] = "call") ~> (ppc[s] # "call" \/ icrashed)
    /\ [][C4_Dropped]_vars

\* the worker has exited and a producer's point was dropped by a call
\* that returned
C4_Witness ==
    /\ istop /\ wpc = "done" /\ ~icrashed
    /\ \E p \in Producers :
         /\ ppc[p] = "idle"
         /\ pnext[p] > 0
         /\ <<p, pnext[p]>> \notin accepted

\* C5: every point the worker has accepted is either still in the buffer,
\* in no successful request, or not in the buffer and in exactly one
\* successful request; nothing else is in the buffer or in a request.
C5_SentExactlyOnce ==
    /\ \A pt \in accepted : Count(pt, shipped) + Count(pt, points) = 1
    /\ Range(shipped) \cup Range(points) \subseteq accepted
    /\ wpc = "flushing" => inflight = points

\* points were shipped, then a later request failed and its points wait
C5_Witness ==
    /\ shipped # <<>>
    /\ lastFailed # <<>>
    /\ points = lastFailed

\* C6: the points of one sender are in creation order in the buffer, in
\* the request in flight and across the successful requests.
C6_ProducerOrder ==
    \A s \in Senders :
        /\ Increasing(PointsOf(s, shipped \o points))
        /\ Increasing(PointsOf(s, inflight))
        /\ Increasing(PointsOf(s, lastFailed))

\* two points of one producer around a point of another sender, kept in
\* the buffer by a failed flush
C6_Witness ==
    /\ lastFailed # <<>>
    /\ \E p \in Producers :
         /\ Len(PointsOf(p, points)) >= 2
         /\ \E i \in 1..Len(points) :
              /\ points[i][1] # p
              /\ \E j, k \in 1..Len(points) :
                   j < i /\ i < k /\ points[j][1] = p /\ points[k][1] = p

\* C7: a request is sent only with a non-empty body, which is the whole
\* buffer and starts with the points of the failed request before it;
\* when the request ends with a 2xx response the buffer is empty, and
\* otherwise the buffer is unchanged.
C7_FlushOutcome ==
    [][ /\ (wpc # "flushing" /\ wpc' = "flushing") =>
              /\ inflight' # <<>>
              /\ inflight' = points'
              /\ IsPrefix(lastFailed, inflight')
        /\ (wpc = "flushing" /\ wpc' # "flushing") =>
              IF lastOutcome' = "2xx"
                THEN points' = <<>>
                ELSE points' = points /\ lastFailed' = points
      ]_vars

\* a request in flight that repeats the points of a failed request and
\* carries newer ones
C7_Witness ==
    /\ wpc = "flushing"
    /\ lastOutcome \in FailedOutcomes
    /\ lastFailed # <<>>
    /\ Len(inflight) > Len(lastFailed)

C8_State ==
    /\ finalFlushes <= 1
    /\ wpc = "done" => finalFlushes = 1 /\ fcause = "stop" /\ inflight = <<>>
    /\ ipc \in {"stopped", "terminated"} =>
           wpc = "done" /\ ppc[Probe] \in {"done", "panicked"}

C8_Step ==
    /\ finalFlushes = 1 => finalFlushes' = 1
    /\ wpc = "done" =>
           UNCHANGED <<wpc, points, shipped, inflight, fcause, flen,
                       lastOutcome, lastFailed>>

\* C8: the stop branch of the worker calls flush once; whatever the
\* outcome the worker then exits and no request follows; after the stop
\* channel is closed the worker does exit; Stop returns only after the
\* worker and the self-probe have exited.
C8_FinalFlush ==
    /\ []C8_State
    /\ [][C8_Step]_vars
    /\ istop ~> (wpc = "done")

\* Stop has returned after a final flush that failed: the points stay in
\* the buffer
C8_Witness ==
    /\ ipc = "stopped"
    /\ fcause = "stop"
    /\ lastOutcome \in FailedOutcomes
    /\ points # <<>>

\* a step in which the worker calls flush
FlushCalled ==
    \/ ticks' # ticks
    \/ finalFlushes' # finalFlushes
    \/ (wpc = "select" /\ wpc' = "flushing")

\* the handler of a submission flushes exactly when the buffer has reached
\* the batch size
C9_BatchTrigger ==
    accepted' # accepted =>
        /\ (wpc' = "flushing") <=> (Len(points') >= BatchSize)
        /\ wpc' = "flushing" => fcause' = "batch" /\ flen' = Len(points')

\* C9, as stated: the handler of a submission flushes exactly when the
\* buffer has reached the batch size, and a flush with fewer than
\* batch-size points buffered is caused by a tick.
C9_FlushOnlyOnTick ==
    [][ /\ C9_BatchTrigger
        /\ (FlushCalled /\ flen' < BatchSize) => fcause' = "tick"
      ]_vars

\* C9, amended: the handler of a submission flushes exactly when the
\* buffer has reached the batch size, and a flush with fewer than
\* batch-size points buffered is caused by a tick or by the stop signal.
C9_FlushOnTickOrStop ==
    [][ /\ C9_BatchTrigger
        /\ (FlushCalled /\ flen' < BatchSize) => fcause' \in {"tick", "stop"}
      ]_vars

\* the first request, sent by the submission that brought the empty
\* buffer to the batch size, no tick having occurred
C9_Witness ==
    /\ wpc = "flushing"
    /\ fcause = "batch"
    /\ Len(inflight) = BatchSize
    /\ ticks = 0 /\ shipped = <<>> /\ lastOutcome = "none"

\* C10, as stated: whenever the worker is not inside a handler the buffer
\* holds fewer than batch-size points, and no request carries more than
\* batch-size points.
C10_BufferBounded ==
    /\ wpc \in {"select", "done"} => Len(points) < BatchSize
    /\ Len(inflight) <= BatchSize

\* the largest number of points of one submission
MaxSubmission == IF MaxCall > 2 THEN MaxCall ELSE 2

\* C10, amended: whenever the worker is not inside a handler the buffer
\* holds fewer than batch-size points unless the last flush attempt failed
\* (the buffer is then what that request carried); a request carries the
\* whole buffer, and more than batch-size points only by the overshoot of
\* one submission or after a failed attempt.
C10_BufferBoundedUnlessFailed ==
    /\ (wpc \in {"select", "done"} /\ Len(points) >= BatchSize) =>
           /\ lastOutcome \in FailedOutcomes
           /\ lastFailed = points
    /\ wpc = "flushing" => inflight = points
    /\ Len(inflight) > BatchSize =>
           \/ Len(inflight) < BatchSize + MaxSubmission
           \/ lastFailed # <<>>

\* the worker waits in its select with more than batch-size points kept
\* from a failed request
C10_Witness ==
    /\ wpc = "select"
    /\ Len(points) > BatchSize
    /\ lastFailed = points

\* ---------------------------------------------------------------------
\* Properties of the database client
\* ---------------------------------------------------------------------

\* p took the advisory lock and its outer transaction has not ended
InCritical(p) ==
    /\ p \in Range(lockOrder)
    /\ tpc[p]["outer"] \in {"fn", "rollback", "commit"}

\* the versions of the committed migrations, in commit order
Migrated == [i \in 1..Len(committed) |-> committed[i].version]

NoDuplicate(seq) ==
    \A i, j \in 1..Len(seq) : seq[i] = seq[j] => i = j

\* at most one call is between taking the lock and the end of its outer
\* transaction, and no migration is committed twice
C11_Serialized ==
    /\ \A p, q \in Procs : InCritical(p) /\ InCritical(q) => p = q
    /\ NoDuplicate(Migrated)

\* the call that obtained the lock second has loaded the versions
SecondLoaded ==
    /\ Len(lockOrder) = 2
    /\ pendingAt[lockOrder[2]] >= 0

\* C11 (as stated): two concurrent UpdateSchema calls serialize on the
\* advisory lock, no migration is applied twice, and the call that obtains
\* the lock second finds no pending migrations.
C11_SecondFindsNothing ==
    /\ C11_Serialized
    /\ SecondLoaded => pendingAt[lockOrder[2]] = 0

\* C11 (amended): two concurrent UpdateSchema calls serialize on the
\* advisory lock and no migration is applied twice; the call that obtains
\* the lock second finds no pending migrations if the outer transaction of
\* the first call was committed, and otherwise finds exactly the
\* migrations of the directory that the first call left unrecorded.
C11_LockSerializes ==
    /\ C11_Serialized
    /\ SecondLoaded =>
          /\ txret[lockOrder[1]]["outer"] = "nil"
                => pendingAt[lockOrder[2]] = 0
          /\ upc[lockOrder[2]] = "loop" /\ midx[lockOrder[2]] = 1 =>
                Range(migrations[lockOrder[2]]) =
                    Range(dir) \ schemaVersions

\* the first call applied migrations while the second waited for the lock,
\* and the second then found nothing to apply
C11_Witness ==
    /\ SecondLoaded
    /\ pendingAt[lockOrder[1]] >= 2
    /\ Len(committed) >= 2
    /\ txret[lockOrder[1]]["outer"] = "nil"
    /\ pendingAt[lockOrder[2]] = 0

\* the versions of seq are in strictly ascending order
Ascending(seq) ==
    \A i, j \in 1..Len(seq) : i < j => Less(seq[i], seq[j])

\* the migrations call p has committed, in commit order
CommittedBy(p) ==
    LET Mine(c) == c.by = p
        mine == SelectSeq(committed, Mine)
    IN [i \in 1..Len(mine) |-> mine[i].version]

C12_State ==
    \A p \in Procs :
        /\ pendingAt[p] = -1 => attempts[p] = <<>>
        /\ pendingAt[p] >= 0 =>
              /\ Ascending(migrations[p])
              /\ Range(migrations[p]) \subseteq Range(dir)
              /\ IsPrefix(attempts[p], migrations[p])
              /\ IsPrefix(CommittedBy(p), attempts[p])
        /\ pendingAt[p] >= 0 /\ uret[p] = "nil" =>
              /\ CommittedBy(p) = migrations[p]
              /\ Range(dir) \subseteq schemaVersions

C12_Step ==
    \A p \in Procs :
        /\ pendingAt'[p] # pendingAt[p] =>
              Range(migrations'[p]) = Range(dir) \ schemaVersions
        /\ attempts'[p] # attempts[p] =>
              attempts'[p][Len(attempts'[p])] \notin schemaVersions

\* C12: UpdateSchema applies exactly the migrations of the schema
\* directory whose version is not recorded in schema_versions, each one
\* once, in ascending order of version; a recorded version is never
\* applied again.
C12_AppliesPending == []C12_State /\ [][C12_Step]_vars

\* the directory holds three versions of which the second is recorded:
\* the call has applied the first and the third, in that order
C12_Witness ==
    \E p \in Procs :
        /\ uret[p] = "nil"
        /\ Len(dir) >= 3
        /\ CommittedBy(p) = <<VersionOf(1), VersionOf(3)>>
        /\ attempts[p] = <<VersionOf(1), VersionOf(3)>>
        /\ VersionOf(2) \in schemaVersions

\* c.WithTx(m.Apply) of call p returned an error
FailedApply(p) == txret[p]["inner"] \notin {"none", "nil"}

\* C13: if applying migration k fails, no migration after k is attempted,
\* the outer transaction is rolled back, which releases the advisory lock,
\* and UpdateSchema returns the error; the migrations before k stay
\* committed and recorded, and migration k leaves neither its SQL effects
\* nor its version row.
C13_FailedMigration ==
    \A p \in Procs :
        FailedApply(p) =>
            LET k == midx[p] IN
            /\ Len(attempts[p]) <= k
            /\ CommittedBy(p) = SubSeq(migrations[p], 1, k - 1)
            /\ \A i \in 1..(k - 1) : migrations[p][i] \in schemaVersions
            /\ lockHolder # p => migrations[p][k] \notin schemaVersions
                                 \/ \E c \in Range(committed) :
                                       /\ c.by # p
                                       /\ c.version = migrations[p][k]
            /\ lockHolder = p => migrations[p][k] \notin schemaVersions
            /\ tpc[p]["outer"] \in {"fn", "rollback", "returned"}
            /\ tpc[p]["outer"] = "returned" =>
                  /\ lockHolder # p
                  /\ txret[p]["outer"] = "fnErr"
                  /\ Len(txlog[p]["outer"]) = 2
                  /\ txlog[p]["outer"][2].name = "ROLLBACK"
            /\ upc[p] = "done" => uret[p] = "err"

\* the second migration of three failed: the call has returned the error,
\* the first migration is committed and recorded, the second is not, the
\* third was not attempted and the lock is free
C13_Witness ==
    \E p \in Procs :
        /\ FailedApply(p) /\ midx[p] = 2 /\ pendingAt[p] >= 3
        /\ Len(attempts[p]) = 2
        /\ upc[p] = "done" /\ uret[p] = "err"
        /\ CommittedBy(p) = <<migrations[p][1]>>
        /\ migrations[p][2] \notin schemaVersions
        /\ lockHolder = "none"

\* WithTx has sent a successful BEGIN
Begun(p, l) ==
    txlog[p][l] # <<>> /\ txlog[p][l][1] = Stmt("BEGIN", TRUE)

\* C14: after a successful BEGIN, WithTx ends the transaction with exactly
\* one of ROLLBACK or COMMIT: ROLLBACK if and only if fn returned an error,
\* which is then what WithTx returns, also when the rollback fails; COMMIT
\* otherwise, a failing COMMIT becoming the returned error. If Acquire or
\* BEGIN fails, fn is never run. The pooled connection is released on
\* every path of WithTx and of WithConn.
C14_WithTx ==
    \A p \in Procs :
        /\ \A l \in Levels :
              tpc[p][l] = "returned" =>
                  LET log == txlog[p][l] IN
                  /\ l \notin held[p]
                  /\ Begun(p, l) =>
                        /\ Len(log) = 2
                        /\ log[2].name \in {"ROLLBACK", "COMMIT"}
                        /\ log[2].name = "ROLLBACK" <=> fnres[p][l] = "err"
                        /\ fnres[p][l] \in {"ok", "err"}
                        /\ fnres[p][l] = "err" => txret[p][l] = "fnErr"
                        /\ fnres[p][l] = "ok" =>
                              txret[p][l] = IF log[2].ok THEN "nil"
                                            ELSE "commitErr"
                  /\ ~Begun(p, l) =>
                        /\ fnres[p][l] = "none"
                        /\ txret[p][l] \in {"acquireErr", "beginErr"}
                        /\ log \in {<<>>, <<Stmt("BEGIN", FALSE)>>}
        /\ \A l \in Levels :
              fnres[p][l] # "none" => Begun(p, l)
        /\ "conn" \in held[p] => upc[p] = "createRun"
        /\ upc[p] = "done" => held[p] = {}

\* a WithTx whose fn returned an error and whose ROLLBACK failed has
\* returned the error of fn and released its connection
C14_Witness ==
    \E p \in Procs : \E l \in Levels :
        /\ tpc[p][l] = "returned"
        /\ fnres[p][l] = "err"
        /\ txlog[p][l] = <<Stmt("BEGIN", TRUE), Stmt("ROLLBACK", FALSE)>>
        /\ txret[p][l] = "fnErr"
        /\ l \notin held[p]

\* ---------------------------------------------------------------------
\* Properties of the HTTP request pipeline
\* ---------------------------------------------------------------------

\* the route function of request r panicked
Panicked(r) == pval[r] # NoPanic

\* the router has returned or the panic of r has been handled
Served(r) == hpc[r] \in {"logging", "done"}

\* the body of the reply to an internal error
InternalError == EncodeAPIError("internal error", "internal_error")

\* a request that did not panic is answered by what its own route
\* function or the router replied, whatever the other requests did
AnsweredNormally(r) ==
    /\ ~escaped[r]
    /\ errlog[r] = <<>>
    /\ hkind[r] = "notFound" =>
          rw[r].sent = 404 /\ errorCode[r] = "route_not_found"
    /\ hkind[r] = "methodNotAllowed" =>
          rw[r].sent = 405 /\ errorCode[r] = "unhandled_method"
    /\ hkind[r] = "routed" =>
          /\ rw[r].sent = IF script[r] = <<>> THEN 0 ELSE script[r][1]
          /\ Len(rw[r].body) = Len(script[r])
          /\ errorCode[r] # "internal_error"

C16_State ==
    \A r \in Requests :
        Len(rlog[r]) = IF hpc[r] = "done" THEN 1 ELSE 0

C16_Step ==
    \A r \in Requests :
        rlog'[r] # rlog[r] =>
            /\ Served(r)
            /\ hkind[r] \in Kinds
            /\ Panicked(r) =>
                  /\ errlog[r] # <<>>
                  /\ rw[r].status = 500
                  /\ rw[r].body # <<>>
                  /\ rw[r].body[Len(rw[r].body)] = InternalError
            /\ rlog'[r] = <<RequestLine(r)>>

\* C16: for every request entering the server (routed, not found, method
\* not allowed, or panicking) the request log line is emitted exactly
\* once, and only after the route handler has returned or its panic has
\* been recovered and answered.
C16_LoggedOnce == []C16_State /\ [][C16_Step]_vars

\* a panicking request and a request to an unknown route have both been
\* served, each with its one log line
C16_Witness ==
    \E r, q \in Requests :
        /\ hpc[r] = "done" /\ Panicked(r)
        /\ rlog[r] = <<[status |-> 500, size |-> 1,
                        error |-> "internal_error"]>>
        /\ hpc[q] = "done" /\ hkind[q] = "notFound"
        /\ rlog[q] = <<[status |-> 404, size |-> 1,
                        error |-> "route_not_found"]>>

Pinned(conn) ==
    /\ cfgTLS
    /\ conn.serverName \in pinNames
    /\ publicKeyPins[conn.serverName] # {}

\* the digest of the peer's key is one of the pins of the server name
PinMatches(conn) ==
    /\ conn.peerKey # NoKey
    /\ \E pin \in publicKeyPins[conn.serverName] :
          /\ Len(pin) = Len(Sum256(conn.peerKey))
          /\ \A i \in 1..Len(pin) :
                pin[i] = HexDigits[Sum256(conn.peerKey)[i] + 1]

\* C18: DialTLSContext returns a usable connection to a server name that
\* has a non-empty pin set only if the SHA-256 hex digest of the peer
\* certificate's SubjectPublicKeyInfo equals one of the pins of that
\* name; on a mismatch the connection is closed and the invalid server
\* certificate error is returned; a server name without pins is never
\* rejected by the pin check.
C18_PinCheck ==
    dialpc = "returned" /\ dialResult # "dialError" =>
        /\ dialResult = "conn" => tlsConn.open
        /\ dialResult = "conn" /\ Pinned(tlsConn) => PinMatches(tlsConn)
        /\ Pinned(tlsConn) /\ tlsConn.peerKey # NoKey
           /\ ~PinMatches(tlsConn)
           => dialResult = "invalidServerCertificate" /\ ~tlsConn.open
        /\ ~Pinned(tlsConn) => dialResult = "conn"
        /\ dialResult # "conn" => ~tlsConn.open

\* n1 is pinned to the digest of k1 and n2 to the digest of k2: a
\* connection to n1 whose certificate carries k2 has been refused and
\* closed
C18_Witness ==
    /\ dialpc = "returned"
    /\ publicKeyPins["n1"] = {<<"a", "1">>} /\ "n1" \in pinNames
    /\ publicKeyPins["n2"] = {<<"2", "b">>} /\ "n2" \in pinNames
    /\ tlsConn.serverName = "n1" /\ tlsConn.peerKey = "k2"
    /\ dialResult = "invalidServerCertificate"
    /\ ~tlsConn.open
    /\ ndials >= 2

\* ---------------------------------------------------------------------
\* Properties of the validation checker
\* ---------------------------------------------------------------------

\* C19: for every sequence of (possibly nested) WithChild calls, and of
\* nested object, array and map checks built on it, the pointer of the
\* checker after the call equals the pointer before it, whether or not the
\* callbacks recorded errors; Push followed by Pop is likewise balanced.
C19_PointerRestored ==
    [][frames' # frames /\ Len(frames') <= Len(frames) =>
          /\ ~cpanic'
          /\ Len(frames') = Len(frames) - 1
          /\ cPointer' = frames[Len(frames)].before]_vars

\* the last call was a check of the given token that can fail
LeafOps == {"Check", "CheckIntMin", "CheckIntMax", "CheckIntMinMax",
            "CheckObject"}

\* whether the check o fails
Fails(o) ==
    CASE o.op = "Check" -> ~o.args[1]
      [] o.op = "CheckIntMin" -> o.args[1] < o.args[2]
      [] o.op = "CheckIntMax" -> o.args[1] > o.args[2]
      [] o.op = "CheckIntMinMax" ->
             o.args[1] < o.args[2] \/ o.args[1] > o.args[3]
      [] OTHER -> o.args[1]

\* the code of the error the failing check o records
CodeOf(o) ==
    CASE o.op = "Check" -> "invalid_value"
      [] o.op = "CheckIntMin" -> "integer_too_small"
      [] o.op = "CheckIntMax" -> "integer_too_large"
      [] o.op = "CheckIntMinMax" ->
             IF o.args[1] < o.args[2] THEN "integer_too_small"
             ELSE "integer_too_large"
      [] OTHER -> "missing_value"

\* the path a token stands for
Path(token) ==
    CASE token.type = "string" -> <<token.str>>
      [] token.type = "int" -> <<Itoa(token.int)>>
      [] OTHER -> token.ptr

\* a step that is the call of a check that fails or passes at once
LeafStep == nops' = nops + 1 /\ lastOp'.op \in LeafOps /\ frames' = frames

C20_Step ==
    /\ Len(cErrors) <= Len(cErrors')
    /\ SubSeq(cErrors', 1, Len(cErrors)) = cErrors
    /\ LeafStep =>
          IF Fails(lastOp')
          THEN /\ ret' = FALSE
               /\ cErrors' =
                     Append(cErrors,
                            [pointer |-> cPointer \o Path(lastOp'.token),
                             code |-> CodeOf(lastOp')])
          ELSE ret' = TRUE /\ cErrors' = cErrors

\* C20: every failing check appends exactly one error, whose pointer is
\* the pointer of the checker at that moment extended by the token of the
\* check, and returns false; a passing check appends nothing and returns
\* true; the errors keep the order of the calls, none is ever removed or
\* changed.
C20_OneErrorPerFailure == [][C20_Step]_vars

\* a check of CheckIntMinMax with min > max failed on both limits, below
\* the root, after another error was recorded
C20_Witness ==
    /\ lastOp.op = "CheckIntMinMax"
    /\ lastOp.args[1] < lastOp.args[2]
    /\ lastOp.args[1] > lastOp.args[3]
    /\ Len(frames) >= 1
    /\ Len(cPointer) >= 1
    /\ Len(cErrors) >= 2
    /\ cErrors[Len(cErrors)].code = "integer_too_small"
    /\ ret = FALSE

\* a step that is the call of CheckObject or CheckOptionalObject on nil
NilObjectStep ==
    /\ nops' = nops + 1
    /\ frames' = frames
    /\ lastOp'.op \in {"CheckObject", "CheckOptionalObject"}

\* a step that is the call of one of them on an object that is present
ObjectStep ==
    /\ Len(frames') = Len(frames) + 1
    /\ frames'[Len(frames')].kind = "doCheckObject"

\* a step that ends the check of an object that is present
ObjectEnd ==
    /\ frames # <<>>
    /\ frames[Len(frames)].kind = "doCheckObject"
    /\ Len(frames') < Len(frames) \/ cpanic' # cpanic

C21_Step ==
    /\ NilObjectStep =>
          /\ cPointer' = cPointer
          /\ IF lastOp'.op = "CheckObject"
             THEN /\ ret' = FALSE
                  /\ cErrors' =
                        Append(cErrors,
                               [pointer |-> cPointer \o Path(lastOp'.token),
                                code |-> "missing_value"])
             ELSE ret' = TRUE /\ cErrors' = cErrors
    /\ ObjectStep =>
          /\ ~lastOp'.args[1]
          /\ cPointer' = cPointer \o Path(lastOp'.token)
          /\ cErrors' = cErrors
    /\ ObjectEnd =>
          /\ ~cpanic'
          /\ frames' = SubSeq(frames, 1, Len(frames) - 1)
          /\ ret' = (Len(cErrors) = frames[Len(frames)].nbErrors)

\* C21: CheckObject on a nil object records one missing_value error at the
\* pointer of the checker extended by the token and returns false, without
\* calling the check of the object; CheckOptionalObject on nil records
\* nothing and returns true; on an object that is present both run the
\* check of the object under the pointer extended by the token and return
\* true exactly when that check added no error.
C21_ObjectCheck == [][C21_Step]_vars

\* C21 for the calls that return: the same, except that a call whose
\* deferred Pop panics returns nothing
C21_Returned ==
    [][C21_Step \/ (ObjectEnd /\ cpanic' /\ cPointer = <<>>)]_vars

\* ---------------------------------------------------------------------
\* Properties of the JSON pointer
\* ---------------------------------------------------------------------

\* the escaped form of one character of a token
Escaped(c) ==
    IF c = "~" THEN <<"~", "0">>
    ELSE IF c = "/" THEN <<"~", "1">>
    ELSE <<c>>

\* the text of a token: '/' followed by its characters, escaped
RECURSIVE TokenText(_)
TokenText(t) ==
    IF t = <<>> THEN <<>> ELSE Escaped(Head(t)) \o TokenText(Tail(t))

RECURSIVE PointerText(_)
PointerText(p) ==
    IF p = <<>> THEN <<>>
    ELSE <<"/">> \o TokenText(Head(p)) \o PointerText(Tail(p))

\* C22: the text of a pointer is empty for the root pointer and else the
\* tokens one after the other, each as '/' followed by the token with '~'
\* written '~0' and '/' written '~1'; parsing that text succeeds and
\* yields the pointer again.
C22_RoundTrip ==
    /\ jpc \in {"rendered", "parsed"} =>
          /\ rendered = PointerText(jsonPointer)
          /\ jsonPointer = <<>> => rendered = <<>>
    /\ jpc = "parsed" => parsed = [err |-> "nil", p |-> jsonPointer]

\* the pointer {"~1", "/0"} was rendered and parsed
C22_Witness ==
    /\ jpc = "parsed"
    /\ jsonPointer = << <<"~", "1">>, <<"/", "0">> >>
    /\ rendered = <<"/", "~", "0", "1", "/", "~", "1", "0">>
    /\ parsed.p = jsonPointer

\* ---------------------------------------------------------------------
\* Properties of the PKCS#5 padding
\* ---------------------------------------------------------------------

\* the length of the padding of the data fits in one byte
FitsByte == blockSize - (Len(kdata) % blockSize) <= MaxByte

\* C23: for data x and a block size b >= 1 whose padding length fits in a
\* byte, the length of PadPKCS5(x, b) is a multiple of b strictly greater
\* than the length of x, by a whole block when the length of x is already
\* a multiple of b, and UnpadPKCS5 of it returns x without error.
C23_PadRoundTrip ==
    FitsByte =>
       /\ kpc \in {"padded", "unpadded"} =>
             /\ Len(padded) % blockSize = 0
             /\ Len(padded) > Len(kdata)
             /\ Len(padded) - Len(kdata) <= blockSize
             /\ Len(kdata) % blockSize = 0 =>
                   Len(padded) = Len(kdata) + blockSize
       /\ kpc = "unpadded" => unpadded = [data |-> kdata, err |-> "nil"]

\* data of one whole block was padded with a block and unpadded
C23_Witness ==
    /\ kpc = "unpadded"
    /\ blockSize > 1
    /\ Len(kdata) = blockSize
    /\ Len(padded) = 2 * blockSize
    /\ unpadded.data = kdata

\* the data received is truncated or its padding is inconsistent
Inconsistent(data, b) ==
    \/ Len(data) = 0
    \/ Len(data) % b # 0
    \/ LET p == data[Len(data)] IN
          \/ p = 0
          \/ p > b
          \/ \E i \in (Len(data) - p + 1)..Len(data) : data[i] # p

\* C24: on data that is truncated (a length that is not a positive
\* multiple of the block size) or whose padding is inconsistent (last byte
\* 0, last byte above the block size, or the last p bytes not all equal to
\* the last byte p), UnpadPKCS5 returns an error and no data, and does
\* not panic.
C24_UnpadFails ==
    kpc = "unpaddedInput" /\ Inconsistent(kdata, blockSize) =>
       /\ unpadded.err \notin {"nil", "panic"}
       /\ unpadded.data = <<>>

\* ---------------------------------------------------------------------
\* Properties of the line protocol
\* ---------------------------------------------------------------------

\* the tag keys and the field keys in ascending order of their bytes:
\* 'B' is 0x42, 'X' 0x58, 'a' 0x61, 'x' 0x78, and a prefix comes first
TagKeysAscending == << <<"B">>, <<"a">>, <<"a", ",">> >>
FieldKeysAscending == << <<"X">>, <<"x">> >>

\* the escaped form of a character of a key or of a tag value
KeyChar(c) == IF c \in {",", "=", " "} THEN <<"\\", c>> ELSE <<c>>

RECURSIVE KeyText(_)
KeyText(k) == IF k = <<>> THEN <<>> ELSE KeyChar(Head(k)) \o KeyText(Tail(k))

\* the tag section: ',key=value' for the keys of the list the point has
RECURSIVE TagsText(_, _)
TagsText(p, keys) ==
    IF keys = <<>> THEN <<>>
    ELSE (IF Head(keys) \in DOMAIN p.tags
          THEN <<",">> \o KeyText(Head(keys)) \o <<"=">> \o
               KeyText(p.tags[Head(keys)])
          ELSE <<>>) \o TagsText(p, Tail(keys))

\* the text of the value of a field of the modelled points
ValueText(key) ==
    IF key = <<"x">> THEN <<"1", "i">> ELSE <<"\"", "s", "\\", "\"", "\"">>

\* the field section: 'key=value' for the keys of the list the point has,
\* with ',' between two of them
RECURSIVE FieldsText(_, _, _)
FieldsText(p, keys, first) ==
    IF keys = <<>> THEN <<>>
    ELSE IF Head(keys) \in DOMAIN p.fields
    THEN (IF first THEN <<>> ELSE <<",">>) \o KeyText(Head(keys)) \o
         <<"=">> \o ValueText(Head(keys)) \o
         FieldsText(p, Tail(keys), FALSE)
    ELSE FieldsText(p, Tail(keys), first)

\* the line of a point
PointText(p) ==
    <<"m", "\\", " ">> \o TagsText(p, TagKeysAscending) \o <<" ">> \o
    FieldsText(p, FieldKeysAscending, TRUE) \o
    (IF p.timestamp.set THEN <<" ", "7">> ELSE <<>>)

\* the lines of the first n points, each followed by a newline
RECURSIVE LinesText(_, _)
LinesText(ps, n) ==
    IF n = 0 THEN <<>>
    ELSE LinesText(ps, n - 1) \o PointText(ps[n]) \o <<"\n">>

\* C25: EncodePoint writes the escaped measurement, every tag as
\* ',key=value' in ascending byte order of the keys (nothing for a point
\* without tags), one space, the fields as 'key=value' joined by ',' in
\* ascending order of the keys, and ' <nanoseconds>' exactly when the
\* timestamp is set, whatever the order in which the maps are visited;
\* EncodePoints ends every point with a newline and writes nothing for an
\* empty list.
C25_Encoding ==
    /\ lbuf = LinesText(lpoints, lidx - 1)
    /\ lpc = "done" =>
          /\ lidx = Len(lpoints) + 1
          /\ lpoints = <<>> => lbuf = <<>>

\* two points were encoded, the first with its three tags and two fields
\* and a timestamp, the second without tags and without timestamp
C25_Witness ==
    /\ lpc = "done"
    /\ Len(lpoints) >= 2
    /\ DOMAIN lpoints[1].tags = TagKeys
    /\ DOMAIN lpoints[1].fields = FieldKeys
    /\ lpoints[1].timestamp.set
    /\ DOMAIN lpoints[2].tags = {}
    /\ ~lpoints[2].timestamp.set
    /\ lbuf # <<>>
    /\ lbuf[Len(lbuf)] = "\n"

\* ---------------------------------------------------------------------
\* Properties of a server and its owner
\* ---------------------------------------------------------------------

\* C26: Server.Start returns an error exactly when the address could not
\* be bound; it returns it to its caller, and then neither the serving
\* goroutine nor Server.main exists, so that the wait of a later Stop of
\* that server is not blocked; when Start returns nil both were spawned.
C26_StartFailure ==
    \A s \in Servers :
       /\ opc[s] = "new" => sret[s] = "none"
       /\ opc[s] # "new" =>
             /\ sret[s] \in {"nil", "error"}
             /\ sret[s] = "error" <=> ~listener[s]
       /\ sret[s] = "error" =>
             /\ serve[s] = "none" /\ smain[s] = "none"
             /\ opc[s] = "stopping" => smain[s] \in {"none", "done"}
       /\ sret[s] = "nil" => serve[s] # "none" /\ smain[s] # "none"

\* Stop returned for a server whose Start had failed, while the other
\* server was started
C26_Witness ==
    \E s, t \in Servers :
       /\ sret[s] = "error" /\ opc[s] = "stopped"
       /\ sret[t] = "nil"

\* ---------------------------------------------------------------------
\* Properties of the daemon configuration
\* ---------------------------------------------------------------------

\* a step that is an insertion into the map of the configuration m, by
\* the operation op, that changes it into n
Inserted(op, m, n) ==
    gresult'.op = op =>
       IF gresult'.name \in DOMAIN m
       THEN gresult'.outcome = "panic" /\ n = m /\ gpc' = "panicked"
       ELSE /\ gresult'.outcome = "ok"
            /\ DOMAIN n = DOMAIN m \cup {gresult'.name}
            /\ \A name \in DOMAIN m : n[name] = m[name]

C27_Step ==
    /\ nadds' = nadds + 1 \/ (gpc = "initHTTPServers" /\ cfgAPI) =>
          /\ Inserted("AddHTTPServer", cfgHTTPServers, cfgHTTPServers')
          /\ Inserted("AddHTTPClient", cfgHTTPClients, cfgHTTPClients')
    /\ gpc \in {"initHTTPClients", "range"} /\ gresult' # gresult =>
          IF gresult'.name \in DOMAIN dHTTPClients
          THEN /\ gresult'.outcome = "error"
               /\ gpc' = "failed"
               /\ dHTTPClients' = dHTTPClients
          ELSE \A name \in DOMAIN dHTTPClients :
                  /\ name \in DOMAIN dHTTPClients'
                  /\ dHTTPClients'[name] = dHTTPClients[name]

C27_State ==
    /\ cfgInflux /\ "influx" \in DOMAIN dHTTPClients =>
          dHTTPClients["influx"] = HTTPClient("influx", InfluxHTTPClientCfg)
    /\ cfgInflux /\ "influx" \in DOMAIN cfgHTTPClients => gpc # "done"
    /\ gpc = "done" =>
          /\ DOMAIN dHTTPServers = DOMAIN cfgHTTPServers
          /\ DOMAIN dHTTPClients =
                DOMAIN cfgHTTPClients \cup
                (IF cfgInflux THEN {"influx"} ELSE {})

\* C27: inserting a server or a client under a name that is present is
\* refused (AddHTTPServer and AddHTTPClient panic, initHTTPClient returns
\* an error) and leaves the entry that is there unchanged; when the
\* metrics are configured the client "influx" is the one of the metrics,
\* and a client of that name in the configuration makes the init of the
\* daemon fail.
C27_UniqueNames == []C27_State /\ [][C27_Step]_vars

\* the init failed on the client "influx" of the configuration, the one
\* of the metrics being in place
C27_Witness ==
    /\ cfgInflux
    /\ gpc = "failed"
    /\ gresult = Insertion("initHTTPClient", "influx", "error")
    /\ "influx" \in DOMAIN cfgHTTPClients
    /\ "influx" \in DOMAIN dHTTPClients
    /\ dHTTPClients["influx"].origin = "influx"

\* ---------------------------------------------------------------------
\* Properties of the order of Daemon.init, start and stop
\* ---------------------------------------------------------------------

\* the init functions that have returned nil
InitDone == hist \cap Range(InitFuncs)

\* the daemon aborted while it was in the given phase
AbortedIn(phase) == exitCode = 1 /\ dpc = phase

C28_State ==
    /\ InitFuncs = <<"hostname", "logger", "httpServers", "httpClients",
                     "influx", "pg", "api", "service">>
    /\ dpc = "init" => InitDone = {InitFuncs[i] : i \in 1..(initIdx - 1)}
    /\ dpc # "init" => InitDone = Range(InitFuncs)
    /\ AbortedIn("init") =>
          /\ initIdx <= Len(InitFuncs)
          /\ InitFuncs[initIdx] \notin hist
          /\ "service" \notin hist

C28_Step ==
    /\ InitDone \subseteq hist'
    /\ hist' \cap Range(InitFuncs) # InitDone =>
          /\ dpc = "init" /\ exitCode = -1
          /\ "startupFailed" \notin hist
          /\ hist' \cap Range(InitFuncs) = InitDone \cup {InitFuncs[initIdx]}
    /\ AbortedIn("init") => UNCHANGED vars

\* C28: Daemon.init runs hostname, logger, HTTP servers, HTTP clients,
\* metrics client, database client, API server and service Init in that
\* order; the first of them that fails makes init return its error, after
\* which no later one runs, service Init least of all, and nothing that
\* was done is undone by init.
C28_InitOrder == []C28_State /\ [][C28_Step]_vars

\* the init of the database client failed after the five steps before it
C28_Witness ==
    /\ AbortedIn("init")
    /\ InitFuncs[initIdx] = "pg"
    /\ InitDone = {"hostname", "logger", "httpServers", "httpClients",
                   "influx"}

\* every HTTP server of the daemon has been started
AllStarted == \A s \in Servers : serve[s] # "none"

C29_State ==
    /\ dpc = "startServers" =>
          "influxStarted" \notin hist /\ "started" \notin hist
    /\ "influxStarted" \in hist => cfgInflux /\ AllStarted
    /\ dpc = "startService" =>
          /\ AllStarted
          /\ cfgInflux => "influxStarted" \in hist
          /\ "started" \notin hist
    /\ "started" \in hist =>
          /\ AllStarted
          /\ cfgInflux => "influxStarted" \in hist
    /\ (\E s \in Servers : serve[s] # "none") =>
          InitDone = Range(InitFuncs)

C29_Step ==
    /\ AbortedIn("startServers") \/ AbortedIn("startService") =>
          UNCHANGED vars
    /\ "influxStarted" \in hist' /\ "influxStarted" \notin hist =>
          dpc = "startServers" /\ dpc' = "startService"
    /\ "started" \in hist' /\ "started" \notin hist =>
          dpc = "startService" /\ dpc' = "wait"

\* C29: Daemon.start starts every HTTP server, then the metrics client,
\* then the service, in that order; when a step fails none of the later
\* ones runs: after a server failed to listen the metrics client is not
\* started and service Start is not called.
C29_StartOrder == []C29_State /\ [][C29_Step]_vars

\* the second server failed to listen after the first one had started:
\* the metrics client, though configured, was not started
C29_Witness ==
    /\ AbortedIn("startServers")
    /\ cfgInflux
    /\ \E s, t \in Servers : serve[s] = "serving" /\ serve[t] = "none"
    /\ "influxStarted" \notin hist

C30_State ==
    /\ dpc = "stopService" =>
          "signalTaken" \in hist /\ "serviceStopped" \notin hist
    /\ "serviceStopped" \in hist =>
          "signalTaken" \in hist /\ "started" \in hist
    /\ "pgClosed" \in hist => cfgPg /\ "serviceStopped" \in hist
    /\ "influxStopped" \in hist =>
          /\ cfgInflux /\ "serviceStopped" \in hist
          /\ cfgPg => "pgClosed" \in hist
    /\ \A s \in Servers :
          sstop[s] =>
             /\ "serviceStopped" \in hist
             /\ cfgPg => "pgClosed" \in hist
             /\ cfgInflux => "influxStopped" \in hist
             /\ stopping # s => smain[s] = "done"
    /\ "stopped" \in hist =>
          /\ stopping = NoServer
          /\ \A s \in Servers : sstop[s] /\ smain[s] = "done"

C30_Step ==
    /\ AbortedIn("wait") => UNCHANGED vars
    /\ "serviceStopped" \in hist' /\ "serviceStopped" \notin hist =>
          dpc = "stopService" /\ dpc' = "stopPg"
    /\ dpc = "stopPg" /\ dpc' # dpc =>
          /\ dpc' = "stopInflux"
          /\ cfgPg => "pgClosed" \in hist'
    /\ dpc = "stopInflux" /\ dpc' # dpc =>
          /\ dpc' = "stopServers"
          /\ cfgInflux => "influxStopped" \in hist'
    /\ \A s \in Servers :
          sstop'[s] /\ ~sstop[s] =>
             dpc = "stopServers" /\ stopping = NoServer /\ stopping' = s

\* C30: Daemon.stop begins only after a signal ended the wait of the run
\* phase, and stops the service, then closes the database pool, then
\* stops the metrics client, then stops the HTTP servers one after the
\* other, each step being over before the next begins: the Stop of a
\* server returns once its Server.main is done.
C30_StopOrder == []C30_State /\ [][C30_Step]_vars

\* stop is over with the database and the metrics configured
C30_Witness ==
    /\ "stopped" \in hist
    /\ cfgPg /\ cfgInflux
    /\ {"serviceStopped", "pgClosed", "influxStopped"} \subseteq hist
    /\ \A s \in Servers : sstop[s] /\ sshut[s]

\* ---------------------------------------------------------------------
\* Properties of Daemon.terminate
\* ---------------------------------------------------------------------

C31_State ==
    /\ "terminate" \in hist =>
          /\ {"signalTaken", "serviceStopped", "stopped"} \subseteq hist
          /\ cfgPg => "pgClosed" \in hist
          /\ cfgInflux => "influxStopped" \in hist
          /\ stopping = NoServer
          /\ \A s \in Servers : sstop[s] /\ smain[s] = "done"
    /\ "influxTerminated" \in hist => cfgInflux /\ "terminate" \in hist
    /\ "clientsTerminated" \in hist =>
          /\ "terminate" \in hist
          /\ cfgInflux => "influxTerminated" \in hist
    /\ \A s \in Servers :
          serrclosed[s] => "clientsTerminated" \in hist
    /\ dclosed <=> "terminated" \in hist
    /\ dclosed =>
          /\ "clientsTerminated" \in hist
          /\ \A s \in Servers : serrclosed[s]

C31_Step ==
    /\ dclosed => dclosed'
    /\ \A s \in Servers : serrclosed[s] => serrclosed'[s]
    /\ \A s \in Servers :
          serrclosed'[s] /\ ~serrclosed[s] =>
             /\ dpc = "termServers" /\ ~dclosed
             /\ \A t \in Servers \ {s} : serrclosed'[t] = serrclosed[t]
    /\ dclosed' /\ ~dclosed => dpc = "termServers" /\ dpc' = "returning"
    /\ "influxTerminated" \in hist' /\ "influxTerminated" \notin hist =>
          dpc = "termInflux"
    /\ "clientsTerminated" \in hist' /\ "clientsTerminated" \notin hist =>
          dpc = "termClients"
    /\ dpc = "returning" => UNCHANGED <<dclosed, serrclosed, hist>>

\* C31: Daemon.terminate starts only once Daemon.stop is over for every
\* component, and then calls the Terminate of the service, of the metrics
\* client, of the HTTP clients and of every HTTP server (which closes its
\* error channel) in that order, and closes the supervisor's channels
\* last; a channel once closed is not closed again.
C31_TerminateOrder == []C31_State /\ [][C31_Step]_vars

\* Run has returned after terminate, the metrics client being configured
C31_Witness ==
    /\ exitCode = 0 /\ cfgInflux
    /\ {"influxTerminated", "clientsTerminated", "terminated"} \subseteq hist
    /\ dclosed
    /\ \A s \in Servers : serrclosed[s]

\* ---------------------------------------------------------------------
\* Properties of Server.Stop
\* ---------------------------------------------------------------------

\* Stop has returned for the server s, whose Start had returned nil
StoppedAfterStart(s) == sret[s] = "nil" /\ opc[s] = "stopped"

\* C32, as stated: once Stop has returned for a started server,
\* Server.main has terminated after the graceful shutdown it invoked on
\* the stop signal.
C32_StopAfterShutdown ==
    \A s \in Servers :
       StoppedAfterStart(s) => smain[s] = "done" /\ sshut[s]

C32_State ==
    \A s \in Servers :
       /\ StoppedAfterStart(s) =>
             /\ smain[s] = "done"
             /\ sshut[s] \/ slogged[s]
       /\ sshut[s] => sstop[s] /\ smain[s] = "done" /\ ~slogged[s]
       /\ slogged[s] => sraised[s] /\ smain[s] = "done"

C32_Step ==
    \A s \in Servers :
       /\ sshut'[s] /\ ~sshut[s] =>
             smain[s] = "select" /\ smain'[s] = "done" /\ sstop[s]
       /\ smain[s] = "done" =>
             smain'[s] = "done" /\ sshut'[s] = sshut[s]

\* C32, amended: once Stop has returned for a started server, Server.main
\* has terminated, either after the graceful shutdown it invoked on the
\* stop signal, or, without any shutdown, after it received and logged an
\* error of the serving goroutine; the shutdown is invoked only by the
\* step that ends Server.main, hence at most once per server.
C32_StopWaitsForMain == []C32_State /\ [][C32_Step]_vars

\* Stop has returned for two started servers, after the shutdown for one
\* and after a logged serve error without shutdown for the other
C32_Witness ==
    \E s, t \in Servers :
       /\ StoppedAfterStart(s) /\ sshut[s]
       /\ StoppedAfterStart(t) /\ slogged[t] /\ ~sshut[t]

\* ---------------------------------------------------------------------
\* Properties of the tags of a point
\* ---------------------------------------------------------------------

\* the key has a value in the map, and it is not empty
HasValue(m, key) == key \in DOMAIN m /\ m[key] # ""

\* C33: after finalizePoint the tags of the point hold no empty value, and
\* hold exactly the keys that have a value that is not empty in the base
\* tags or in the tags the point had; where the point had such a value it
\* is kept, also when the base tags have one for the key, and elsewhere
\* the value is the one of the base tags; the base tags are those that
\* NewClient built.
C33_MergeTags ==
    /\ mpc \in {"new", "finalized"} =>
          ctags = NewClientTags(hostname, cfgTags)
    /\ mpc = "finalized" =>
          /\ \A k \in DOMAIN ftags : ftags[k] # ""
          /\ DOMAIN ftags =
                {k \in TagNames : HasValue(ctags, k) \/ HasValue(ptags, k)}
          /\ \A k \in DOMAIN ftags :
                ftags[k] = IF HasValue(ptags, k) THEN ptags[k]
                                                 ELSE ctags[k]

\* a point was finalized whose tag "host" collides with the base tag
\* and whose tag "k" is empty while the base tags have a value for it
C33_Witness ==
    /\ mpc = "finalized"
    /\ HasValue(ctags, "host") /\ HasValue(ptags, "host")
    /\ ctags["host"] # ptags["host"]
    /\ ftags["host"] = ptags["host"]
    /\ "k" \in DOMAIN ptags /\ ptags["k"] = ""
    /\ HasValue(ctags, "k") /\ ftags["k"] = ctags["k"]

\* ---------------------------------------------------------------------
\* Properties of the error replies
\* ---------------------------------------------------------------------

\* the last body written for the request is an APIError
ErrorReplied(r) ==
    /\ rw[r].body # <<>>
    /\ "code" \in DOMAIN rw[r].body[Len(rw[r].body)]

\* the code of that APIError
RepliedCode(r) == rw[r].body[Len(rw[r].body)].code

\* C34: when the last reply of a request is an error reply,
\* Handler.errorCode is the code sent in it, and the request line that
\* logRequest writes carries that code.
C34_ErrorCodeLogged ==
    \A r \in Requests :
       ErrorReplied(r) =>
          /\ errorCode[r] = RepliedCode(r)
          /\ hpc[r] = "done" =>
                rlog[r][Len(rlog[r])].error = RepliedCode(r)

\* ---------------------------------------------------------------------
\* Properties of the sends on channels that Terminate closes
\* ---------------------------------------------------------------------

\* C35: no call of EnqueuePoint / EnqueuePoints panics, at any point of
\* the life of the metrics client, after Stop and after Terminate
\* included.
C35_EnqueueNeverPanics ==
    /\ ~icrashed
    /\ \A s \in Senders : ppc[s] # "panicked"

\* C36: the serving goroutine of a server never sends on the error
\* channel once Server.Terminate has closed it, whenever Serve fails with
\* respect to Stop and Terminate.
C36_ServeNeverPanics ==
    \A s \in Servers :
       /\ serve[s] # "panicked"
       /\ ~(serve[s] = "sending" /\ serrclosed[s])

\* C38: no call of Daemon.fatal panics, and none is left blocked on a
\* channel that is closed, whatever the number of callers and the phase
\* of the daemon.
C38_FatalNeverPanics ==
    \A c \in Components :
       /\ fpc[c] # "panicked"
       /\ ~(fpc[c] = "blocked" /\ dclosed)

\* ---------------------------------------------------------------------
\* Properties of the status recorded by the ResponseWriter
\* ---------------------------------------------------------------------

\* C39: for every request, the status the ResponseWriter recorded, which
\* the request line logs, is the status that was sent to the client; the
\* two differ exactly when WriteHeader reached the connection a second
\* time with another status; stated for the route functions that reply
\* at most once
C39_StatusRecorded ==
    \A r \in Requests :
        Len(script[r]) <= 1 =>
            /\ rw[r].status = rw[r].sent
            /\ \A i \in 1..Len(rlog[r]) : rlog[r][i].status = rw[r].sent

\* ---------------------------------------------------------------------
\* Properties of the connections UpdateSchema acquires
\* ---------------------------------------------------------------------

\* p holds the advisory lock inside its outer transaction and is at an
\* Acquire for its second connection
WaitsForConn(p) ==
    /\ lockHolder = p
    /\ upc[p] = "create" \/ (upc[p] = "apply" /\ tpc[p]["inner"] = "acquire")

\* q has acquired the connection of its outer transaction and waits in
\* TakeAdvisoryLock for the lock another call holds
WaitsForLock(q) ==
    /\ upc[q] = "lock" /\ tpc[q]["outer"] = "fn"
    /\ lockHolder \notin {"none", q}

\* the pool is exhausted, the holder of the lock waits for a connection,
\* and every other call waits for the lock with a connection in hand
PoolDeadlock ==
    /\ InUse = PoolSize
    /\ \E p \in Procs :
           /\ WaitsForConn(p)
           /\ \A q \in Procs \ {p} : WaitsForLock(q)

\* C37: with a pool of at least two connections, a call that holds the
\* advisory lock is never kept from the second connection it needs by
\* the calls that hold connections while they wait for the lock, so that
\* every UpdateSchema call returns
C37_NoPoolDeadlock == ~PoolDeadlock

\* ---------------------------------------------------------------------
\* Properties of WithTx when its function panics
\* ---------------------------------------------------------------------

\* the statements named name that the transaction of p at level l sent
Sent(p, l, name) ==
    {i \in 1..Len(txlog[p][l]) : txlog[p][l][i].name = name}

\* C40: WithTx sends COMMIT only when its function returned nil: a
\* transaction whose function panicked sent no COMMIT, and its connection
\* is released
C40_NoCommitOnPanic ==
    \A p \in Procs : \A l \in Levels :
        fnres[p][l] = "panic" =>
            /\ Sent(p, l, "COMMIT") = {}
            /\ l \notin held[p]

====
